---- MODULE Spec2Model ----
(***************************************************************************)
(* A model of the study-material generator: the topic extractor, the      *)
(* flashcard generator, the summary generator, the concept mapper, the    *)
(* learning path generator and the upload pipeline that runs them.        *)
(*                                                                         *)
(* A Python str is a sequence of one-character strings, so that lower(),  *)
(* strip(), split(), title(), slicing and the substring test `in` are     *)
(* computed character by character as Python computes them.               *)
(***************************************************************************)
EXTENDS Integers, Sequences, FiniteSets, TLC

\* ------------------------------------------------------------------------
\* Python str operations
\* ------------------------------------------------------------------------

NL == "\n"

UpperLetters ==
    <<"A", "B", "C", "D", "E", "F", "G", "H", "I", "J", "K", "L", "M",
      "N", "O", "P", "Q", "R", "S", "T", "U", "V", "W", "X", "Y", "Z">>

LowerLetters ==
    <<"a", "b", "c", "d", "e", "f", "g", "h", "i", "j", "k", "l", "m",
      "n", "o", "p", "q", "r", "s", "t", "u", "v", "w", "x", "y", "z">>

Digits == {"0", "1", "2", "3", "4", "5", "6", "7", "8", "9"}

UpperSet ==
    {"A", "B", "C", "D", "E", "F", "G", "H", "I", "J", "K", "L", "M",
     "N", "O", "P", "Q", "R", "S", "T", "U", "V", "W", "X", "Y", "Z"}

LowerSet ==
    {"a", "b", "c", "d", "e", "f", "g", "h", "i", "j", "k", "l", "m",
     "n", "o", "p", "q", "r", "s", "t", "u", "v", "w", "x", "y", "z"}

Whitespace == {" ", NL, "\t"}

\* the characters \w of a pattern matches
WordChars == UpperSet \cup LowerSet \cup Digits \cup {"_"}

\* str.isupper() / isalpha() of one character
IsUpper(c) == c \in UpperSet

IsAlpha(c) == c \in UpperSet \cup LowerSet

IsSpace(c) == c \in Whitespace

\* the lower-case letter of every upper-case letter, and the reverse
LowerOf == [c \in UpperSet |-> LowerLetters[CHOOSE i \in 1..26 : UpperLetters[i] = c]]

UpperOf == [c \in LowerSet |-> UpperLetters[CHOOSE i \in 1..26 : LowerLetters[i] = c]]

LowerChar(c) == IF c \in UpperSet THEN LowerOf[c] ELSE c

UpperChar(c) == IF c \in LowerSet THEN UpperOf[c] ELSE c

\* str.lower()
Lower(s) == [i \in 1..Len(s) |-> LowerChar(s[i])]

\* s[:n] for n >= 0
Take(s, n) == SubSeq(s, 1, IF n < Len(s) THEN n ELSE Len(s))

\* s[n:] for n >= 0
Drop(s, n) == SubSeq(s, n + 1, Len(s))

Min(a, b) == IF a < b THEN a ELSE b

Max(a, b) == IF a > b THEN a ELSE b

\* sub in s
Contains(sub, s) ==
    \E i \in 0..(Len(s) - Len(sub)) : \A k \in 1..Len(sub) : s[i + k] = sub[k]

\* any(k in s for k in keys), keys a sequence of strings
ContainsAny(keys, s) == \E k \in 1..Len(keys) : Contains(keys[k], s)

\* the elements of a finite set of integers in increasing order
SortedSeq(S) ==
    LET below == [p \in S |-> Cardinality({q \in S : q < p})]
    IN  [k \in 1..Cardinality(S) |-> CHOOSE p \in S : below[p] = k - 1]

\* str.strip()
Strip(s) ==
    LET solid == {i \in 1..Len(s) : ~IsSpace(s[i])}
    IN  IF solid = {} THEN <<>>
        ELSE SubSeq(s, CHOOSE i \in solid : \A j \in solid : i <= j,
                       CHOOSE i \in solid : \A j \in solid : i >= j)

\* the pieces of s between the characters of D: every such character splits
SplitOn(s, D) ==
    LET cuts == <<0>> \o SortedSeq({i \in 1..Len(s) : s[i] \in D})
                      \o <<Len(s) + 1>>
    IN  [k \in 1..(Len(cuts) - 1) |-> SubSeq(s, cuts[k] + 1, cuts[k + 1] - 1)]

\* the elements s[i] with keep[i], in order
Filter(s, keep) ==
    LET idx == SortedSeq({i \in 1..Len(s) : keep[i]})
    IN  [k \in 1..Len(idx) |-> s[idx[k]]]

\* s.split(): split on runs of whitespace, no empty strings
Words(s) ==
    LET parts == SplitOn(s, Whitespace)
    IN  Filter(parts, [i \in 1..Len(parts) |-> parts[i] # <<>>])

\* len(s.split()): the number of places where a word starts
WordCount(s) ==
    Cardinality({i \in 1..Len(s) :
        ~IsSpace(s[i]) /\ (i = 1 \/ IsSpace(s[i - 1]))})

\* re.split(r'[.!?]+', s): split on runs of the delimiters; only the first
\* and the last piece may be empty
ReSplitRuns(s, D) ==
    LET parts == SplitOn(s, D)
    IN  Filter(parts, [i \in 1..Len(parts) |->
                          parts[i] # <<>> \/ i = 1 \/ i = Len(parts)])

\* sep.join(parts)
RECURSIVE Join(_, _)
Join(sep, parts) ==
    IF parts = <<>> THEN <<>>
    ELSE IF Len(parts) = 1 THEN parts[1]
    ELSE parts[1] \o sep \o Join(sep, Tail(parts))

\* the decimal digits of a natural number, as str(n)
RECURSIVE Str(_)
Str(n) ==
    LET d == <<"0", "1", "2", "3", "4", "5", "6", "7", "8", "9">>
    IN  IF n < 10 THEN <<d[n + 1]>> ELSE Str(n \div 10) \o <<d[(n % 10) + 1]>>

\* a string literal as the sequence of its characters
Chars(str) == [i \in 1..Len(str) |-> SubSeq(str, i, i)]

\* ------------------------------------------------------------------------
\* ConceptMapper (core/concept_mapper.py)
\* ------------------------------------------------------------------------

\* node_
NodePrefix ==
    <<"n", "o", "d", "e", "_">>

\* f"node_{i}"
NodeId(i) == NodePrefix \o Str(i)

\* the graph returned for an empty topics list
EmptyGraph ==
    [nodes |-> <<>>, edges |-> <<>>,
     metadata |-> [total_nodes |-> 0, total_edges |-> 0]]

MainNodes == 5

NodeLimit == 15

LabelLimit == 30

\* a variant that works on the first 12 topics, the first 4 of them main
_create_nodes_twelve(ts) ==
    [i \in 1..Min(Len(ts), 12) |->
        IF i <= 4
        THEN [id |-> NodeId(i - 1), label |-> Take(ts[i], LabelLimit),
              level |-> 0, type |-> "main", color |-> "#4CAF50"]
        ELSE [id |-> NodeId(i - 1), label |-> Take(ts[i], LabelLimit),
              level |-> 1, type |-> "sub", color |-> "#2196F3"]]

\* ConceptMapper._create_nodes: topics[:5] are main, topics[5:15] are sub
_create_nodes(ts) ==
    [i \in 1..Min(Len(ts), NodeLimit) |->
        IF i <= MainNodes
        THEN [id |-> NodeId(i - 1), label |-> Take(ts[i], LabelLimit),
              level |-> 0, type |-> "main", color |-> "#4CAF50"]
        ELSE [id |-> NodeId(i - 1), label |-> Take(ts[i], LabelLimit),
              level |-> 1, type |-> "sub", color |-> "#2196F3"]]

SentenceEnd == {".", "!", "?"}

MinSentenceLen == 10

\* the sentences _create_edges analyses: re.split(r'[.!?]+', text),
\* stripped, kept when longer than 10 characters
EdgeSentences(txt) ==
    LET parts == ReSplitRuns(txt, SentenceEnd)
        stripped == [i \in 1..Len(parts) |-> Strip(parts[i])]
    IN  Filter(stripped,
               [i \in 1..Len(stripped) |-> Len(stripped[i]) > MinSentenceLen])

\* the number of sentences in which both topics occur, case-insensitively
CoOccurrence(topic1, topic2, sentences) ==
    Cardinality({k \in 1..Len(sentences) :
        /\ Contains(Lower(topic1), Lower(sentences[k]))
        /\ Contains(Lower(topic2), Lower(sentences[k]))})

EdgeTopicLimit == 10

MaxWeight == 5

\* a variant whose loop also pairs a topic with itself
CoEdgesWithLoops(ts, sentences) ==
    LET n == Len(ts)
        co(i, j) == CoOccurrence(ts[i + 1], ts[j + 1], sentences)
        hits == SortedSeq({p[1] * n + p[2] :
                    p \in {q \in (0..(n - 1)) \X (0..(n - 1)) :
                               q[1] <= q[2] /\ co(q[1], q[2]) > 0}})
    IN  [k \in 1..Len(hits) |->
            LET i == hits[k] \div n
                j == hits[k] % n
            IN  [source |-> NodeId(i), target |-> NodeId(j),
                 weight |-> Min(co(i, j), MaxWeight), type |-> "related"]]

\* the double loop of _create_edges over topics[:10]: one edge for every
\* pair i < j (0-based loop indices) that co-occurs, in loop order
CoEdges(ts, sentences) ==
    LET n == Len(ts)
        co(i, j) == CoOccurrence(ts[i + 1], ts[j + 1], sentences)
        hits == SortedSeq({p[1] * n + p[2] :
                    p \in {q \in (0..(n - 1)) \X (0..(n - 1)) :
                               q[1] < q[2] /\ co(q[1], q[2]) > 0}})
    IN  [k \in 1..Len(hits) |->
            LET i == hits[k] \div n
                j == hits[k] % n
            IN  [source |-> NodeId(i), target |-> NodeId(j),
                 weight |-> Min(co(i, j), MaxWeight), type |-> "related"]]

FallbackEdges == 3

\* a variant without the fallback edges
_create_edges_no_fallback(ts, txt) ==
    CoEdges(Take(ts, EdgeTopicLimit), EdgeSentences(txt))

\* a variant that first connects node_0 to the next five nodes by hub edges
_create_edges_hub(ts, txt) ==
    LET edges == CoEdges(Take(ts, EdgeTopicLimit), EdgeSentences(txt))
        hubs == [j \in 1..Min(5, Len(ts) - 1) |->
                    [source |-> NodeId(0), target |-> NodeId(j),
                     weight |-> 3, type |-> "hub"]]
    IN  hubs \o edges

\* ConceptMapper._create_edges
_create_edges(ts, txt) ==
    LET edges == CoEdges(Take(ts, EdgeTopicLimit), EdgeSentences(txt))
    IN  IF Len(edges) = 0 /\ Len(ts) >= 2
        THEN [i \in 1..Min(FallbackEdges, Len(ts) - 1) |->
                 [source |-> NodeId(i - 1), target |-> NodeId(i),
                  weight |-> 1, type |-> "related"]]
        ELSE edges

\* Main Topic
PlaceholderMain ==
    <<"M", "a", "i", "n", " ", "T", "o", "p", "i", "c">>

\* Key Concept
PlaceholderKey ==
    <<"K", "e", "y", " ", "C", "o", "n", "c", "e", "p", "t">>

\* Important Point
PlaceholderPoint ==
    <<"I", "m", "p", "o", "r", "t", "a", "n", "t", " ", "P", "o", "i", "n",
    "t">>

\* Study Material
PlaceholderStudy ==
    <<"S", "t", "u", "d", "y", " ", "M", "a", "t", "e", "r", "i", "a", "l">>

\* a variant that substitutes four placeholder topics for an empty list
create_concept_graph_placeholders(ts, txt) ==
    LET used == IF Len(ts) = 0
                THEN <<PlaceholderMain, PlaceholderKey, PlaceholderPoint,
                       PlaceholderStudy>>
                ELSE ts
        nodes == _create_nodes(used)
        edges == _create_edges(used, txt)
    IN  [nodes |-> nodes, edges |-> edges,
         metadata |-> [total_nodes |-> Len(nodes),
                       total_edges |-> Len(edges)]]

\* ConceptMapper.create_concept_graph
create_concept_graph(ts, txt) ==
    IF Len(ts) = 0 THEN EmptyGraph
    ELSE LET nodes == _create_nodes(ts)
             edges == _create_edges(ts, txt)
         IN  [nodes |-> nodes, edges |-> edges,
              metadata |-> [total_nodes |-> Len(nodes),
                            total_edges |-> Len(edges)]]

\* ------------------------------------------------------------------------
\* FlashcardGenerator (core/flashcard_generator.py)
\* ------------------------------------------------------------------------

\* nltk's sent_tokenize on plain prose (no abbreviations, no initials, no
\* numbers with a period): a sentence ends after a run of . ! or ? that is
\* followed by whitespace; the sentences are stripped and none is empty
sent_tokenize(txt) ==
    LET cuts == <<0>> \o SortedSeq({i \in 1..(Len(txt) - 1) :
                        txt[i] \in SentenceEnd /\ IsSpace(txt[i + 1])})
                      \o <<Len(txt)>>
        parts == [k \in 1..(Len(cuts) - 1) |->
                     Strip(SubSeq(txt, cuts[k] + 1, cuts[k + 1]))]
    IN  Filter(parts, [k \in 1..Len(parts) |-> parts[k] # <<>>])

\* definition_indicators
definition_indicators ==
    <<<<"i", "s">>,
      <<"a", "r", "e">>,
      <<"r", "e", "f", "e", "r", "s", " ", "t", "o">>,
      <<"d", "e", "f", "i", "n", "e", "d", " ", "a", "s">>,
      <<"m", "e", "a", "n", "s">>,
      <<"r", "e", "p", "r", "e", "s", "e", "n", "t", "s">>,
      <<"c", "o", "n", "s", "i", "s", "t", "s", " ", "o", "f">>,
      <<"i", "n", "c", "l", "u", "d", "e", "s">>,
      <<"i", "n", "v", "o", "l", "v", "e", "s">>,
      <<"c", "h", "a", "r", "a", "c", "t", "e", "r", "i", "z", "e", "d", " ", "b", "y">>>>

\* comparison_words
comparison_words ==
    <<<<"d", "i", "f", "f", "e", "r", "e", "n", "c", "e">>,
      <<"c", "o", "m", "p", "a", "r", "e">>,
      <<"v", "e", "r", "s", "u", "s">>,
      <<"v", "s">>,
      <<"u", "n", "l", "i", "k", "e">>,
      <<"s", "i", "m", "i", "l", "a", "r">>,
      <<"c", "o", "n", "t", "r", "a", "s", "t">>>>

\* feature_words
feature_words ==
    <<<<"c", "h", "a", "r", "a", "c", "t", "e", "r", "i", "s", "t", "i", "c", "s">>,
      <<"f", "e", "a", "t", "u", "r", "e", "s">>,
      <<"p", "r", "o", "p", "e", "r", "t", "i", "e", "s">>,
      <<"a", "d", "v", "a", "n", "t", "a", "g", "e", "s">>,
      <<"b", "e", "n", "e", "f", "i", "t", "s">>,
      <<"t", "y", "p", "e", "s">>>>

\* process_words
process_words ==
    <<<<"p", "r", "o", "c", "e", "s", "s">>,
      <<"s", "t", "e", "p", "s">>,
      <<"p", "r", "o", "c", "e", "d", "u", "r", "e">>,
      <<"m", "e", "t", "h", "o", "d">>,
      <<"a", "p", "p", "r", "o", "a", "c", "h">>,
      <<"t", "e", "c", "h", "n", "i", "q", "u", "e">>>>

\* complex_terms
complex_terms ==
    <<<<"i", "m", "p", "l", "e", "m", "e", "n", "t", "a", "t", "i", "o", "n">>,
      <<"a", "r", "c", "h", "i", "t", "e", "c", "t", "u", "r", "e">>,
      <<"m", "e", "t", "h", "o", "d", "o", "l", "o", "g", "y">>,
      <<"p", "a", "r", "a", "d", "i", "g", "m">>,
      <<"a", "l", "g", "o", "r", "i", "t", "h", "m">>>>

\* What is 
WhatIs ==
    <<"W", "h", "a", "t", " ", "i", "s", " ">>

\* Explain the concept of 
ExplainConcept ==
    <<"E", "x", "p", "l", "a", "i", "n", " ", "t", "h", "e", " ", "c", "o",
    "n", "c", "e", "p", "t", " ", "o", "f", " ">>

\* Define 
Define ==
    <<"D", "e", "f", "i", "n", "e", " ">>

\* What are the key features of 
KeyFeatures ==
    <<"W", "h", "a", "t", " ", "a", "r", "e", " ", "t", "h", "e", " ", "k",
    "e", "y", " ", "f", "e", "a", "t", "u", "r", "e", "s", " ", "o", "f",
    " ">>

\* How does 
HowDoes ==
    <<"H", "o", "w", " ", "d", "o", "e", "s", " ">>

\*  work?
Work ==
    <<" ", "w", "o", "r", "k", "?">>

\* What is the purpose of 
PurposeOf ==
    <<"W", "h", "a", "t", " ", "i", "s", " ", "t", "h", "e", " ", "p", "u",
    "r", "p", "o", "s", "e", " ", "o", "f", " ">>

\* Why is 
WhyIs ==
    <<"W", "h", "y", " ", "i", "s", " ">>

\*  important?
Important ==
    <<" ", "i", "m", "p", "o", "r", "t", "a", "n", "t", "?">>

\* What is the difference between 
DifferenceBetween ==
    <<"W", "h", "a", "t", " ", "i", "s", " ", "t", "h", "e", " ", "d", "i",
    "f", "f", "e", "r", "e", "n", "c", "e", " ", "b", "e", "t", "w", "e", "e",
    "n", " ">>

\*  and 
And ==
    <<" ", "a", "n", "d", " ">>

\* What are the key characteristics of 
KeyCharacteristics ==
    <<"W", "h", "a", "t", " ", "a", "r", "e", " ", "t", "h", "e", " ", "k",
    "e", "y", " ", "c", "h", "a", "r", "a", "c", "t", "e", "r", "i", "s", "t",
    "i", "c", "s", " ", "o", "f", " ">>

\*  vs 
Vs ==
    <<" ", "v", "s", " ">>

\* . 
DotSpace ==
    <<".", " ">>

\* concept_templates: the question for a topic, and the card type
concept_templates(t) ==
    <<[question |-> WhatIs \o t \o <<"?">>, type |-> "definition"],
      [question |-> ExplainConcept \o t \o <<".">>, type |-> "explanation"],
      [question |-> Define \o t \o <<".">>, type |-> "definition"],
      [question |-> KeyFeatures \o t \o <<"?">>, type |-> "features"],
      [question |-> HowDoes \o t \o Work, type |-> "mechanism"],
      [question |-> PurposeOf \o t \o <<"?">>, type |-> "purpose"],
      [question |-> WhyIs \o t \o Important, type |-> "importance"]>>

NumTemplates == 7

\* the 1-based index of the first topic of ts that occurs in the lower-cased
\* sentence, 0 when none does
FirstTopicIn(ts, sentence_lower) ==
    LET hits == {i \in 1..Len(ts) : Contains(Lower(ts[i]), sentence_lower)}
    IN  IF hits = {} THEN 0 ELSE CHOOSE i \in hits : \A j \in hits : i <= j

DefinitionTopicLimit == 10

DefinitionMinWords == 5

DefinitionMinAnswer == 8

DefinitionLimit == 8

\* FlashcardGenerator._extract_definition_cards
_extract_definition_cards(sentences, ts) ==
    LET first(k) == FirstTopicIn(Take(ts, DefinitionTopicLimit),
                                 Lower(sentences[k]))
        made == Filter(sentences, [k \in 1..Len(sentences) |->
                    /\ ContainsAny(definition_indicators, Lower(sentences[k]))
                    /\ first(k) > 0
                    /\ WordCount(sentences[k]) > DefinitionMinWords
                    /\ WordCount(Strip(sentences[k])) >= DefinitionMinAnswer])
        cards == [k \in 1..Len(made) |->
                    LET topic == ts[FirstTopicIn(Take(ts, DefinitionTopicLimit),
                                                 Lower(made[k]))]
                    IN  [question |-> WhatIs \o topic \o <<"?">>,
                         answer |-> Strip(made[k]),
                         topic |-> topic,
                         type |-> "definition"]]
    IN  Take(cards, DefinitionLimit)

ConceptTopicLimit == 15

ConceptMinWords == 6

ConceptAnswerSentences == 2

ConceptMaxAnswer == 50

ConceptLimit == 10

\* the stripped sentences that mention the topic and have more than 6 words
related_sentences(topic, sentences) ==
    LET hit == Filter(sentences, [k \in 1..Len(sentences) |->
                   /\ Contains(Lower(topic), Lower(sentences[k]))
                   /\ WordCount(sentences[k]) > ConceptMinWords])
    IN  [k \in 1..Len(hit) |-> Strip(hit[k])]

\* the answer of a concept card: up to 2 related sentences, cut to the
\* first 2 pieces between periods when longer than 50 words
ConceptAnswer(related) ==
    LET answer == Join(DotSpace, Take(related, ConceptAnswerSentences))
    IN  IF WordCount(answer) > ConceptMaxAnswer
        THEN Join(DotSpace, Take(SplitOn(answer, {"."}), 2)) \o <<".">>
        ELSE answer

\* the topics of ts[:15] that have a related sentence, as indices into ts
ConceptTopics(ts, sentences) ==
    SortedSeq({i \in 1..Min(Len(ts), ConceptTopicLimit) :
                  related_sentences(ts[i], sentences) # <<>>})

\* FlashcardGenerator._generate_concept_questions; picks[k] is the template
\* random.choice returns for the k-th topic that has related sentences
_generate_concept_questions(ts, sentences, picks) ==
    LET with == ConceptTopics(ts, sentences)
        cards == [k \in 1..Len(with) |->
                    LET topic == ts[with[k]]
                        chosen == concept_templates(topic)[picks[k]]
                    IN  [question |-> chosen.question,
                         answer |-> ConceptAnswer(
                                        related_sentences(topic, sentences)),
                         topic |-> topic,
                         type |-> chosen.type]]
    IN  Take(cards, ConceptLimit)

ComparisonLimit == 3

\* the topics of ts (all of them) that occur in the lower-cased sentence
mentioned_topics(ts, sentence_lower) ==
    Filter(ts, [i \in 1..Len(ts) |-> Contains(Lower(ts[i]), sentence_lower)])

\* FlashcardGenerator._generate_comparison_questions
_generate_comparison_questions(ts, sentences) ==
    LET made == Filter(sentences, [k \in 1..Len(sentences) |->
                    /\ ContainsAny(comparison_words, Lower(sentences[k]))
                    /\ Len(mentioned_topics(ts, Lower(sentences[k]))) >= 2])
        cards == [k \in 1..Len(made) |->
                    LET m == mentioned_topics(ts, Lower(made[k]))
                    IN  [question |-> DifferenceBetween \o m[1] \o And
                                          \o m[2] \o <<"?">>,
                         answer |-> Strip(made[k]),
                         topic |-> m[1] \o Vs \o m[2],
                         type |-> "comparison"]]
    IN  Take(cards, ComparisonLimit)

FeatureTopicLimit == 10

FeatureMinWords == 8

FeatureLimit == 5

\* FlashcardGenerator._generate_feature_questions
_generate_feature_questions(ts, sentences) ==
    LET made == Filter(sentences, [k \in 1..Len(sentences) |->
                    /\ ContainsAny(feature_words, Lower(sentences[k]))
                    /\ FirstTopicIn(Take(ts, FeatureTopicLimit),
                                    Lower(sentences[k])) > 0
                    /\ WordCount(sentences[k]) > FeatureMinWords])
        cards == [k \in 1..Len(made) |->
                    LET topic == ts[FirstTopicIn(Take(ts, FeatureTopicLimit),
                                                 Lower(made[k]))]
                    IN  [question |-> KeyCharacteristics \o topic \o <<"?">>,
                         answer |-> Strip(made[k]),
                         topic |-> topic,
                         type |-> "features"]]
    IN  Take(cards, FeatureLimit)

ProcessTopicLimit == 8

ProcessMinWords == 6

ProcessLimit == 4

\* FlashcardGenerator._generate_process_questions
_generate_process_questions(ts, sentences) ==
    LET made == Filter(sentences, [k \in 1..Len(sentences) |->
                    /\ ContainsAny(process_words, Lower(sentences[k]))
                    /\ FirstTopicIn(Take(ts, ProcessTopicLimit),
                                    Lower(sentences[k])) > 0
                    /\ WordCount(sentences[k]) > ProcessMinWords])
        cards == [k \in 1..Len(made) |->
                    LET topic == ts[FirstTopicIn(Take(ts, ProcessTopicLimit),
                                                 Lower(made[k]))]
                    IN  [question |-> HowDoes \o topic \o Work,
                         answer |-> Strip(made[k]),
                         topic |-> topic,
                         type |-> "process"]]
    IN  Take(cards, ProcessLimit)

\* card['question'].lower().strip()
question_normalized(card) == Strip(Lower(card.question))

\* a variant that keeps the last card of every normalized question
_remove_duplicates_keep_last(cards) ==
    Filter(cards, [i \in 1..Len(cards) |->
        \A j \in (i + 1)..Len(cards) :
            Strip(Lower(cards[j].question)) # Strip(Lower(cards[i].question))])

\* FlashcardGenerator._remove_duplicates: a card is kept when no earlier
\* card has the same normalized question
_remove_duplicates(cards) ==
    Filter(cards, [i \in 1..Len(cards) |->
        \A j \in 1..(i - 1) :
            question_normalized(cards[j]) # question_normalized(cards[i])])

EasyBelow == 15

MediumBelow == 30

\* a variant that grades by the length of the answer alone
_assign_difficulty_by_length(card) ==
    LET answer_length == WordCount(card.answer)
    IN  IF answer_length < EasyBelow THEN "easy"
        ELSE IF answer_length < MediumBelow THEN "medium"
        ELSE "hard"

\* FlashcardGenerator._assign_difficulty
_assign_difficulty(card) ==
    LET answer_length == WordCount(card.answer)
        has_complex_terms == ContainsAny(complex_terms, Lower(card.answer))
    IN  IF answer_length < EasyBelow /\ ~has_complex_terms THEN "easy"
        ELSE IF answer_length < MediumBelow /\ ~has_complex_terms THEN "medium"
        ELSE "hard"

\* the five strategies of generate, concatenated in generation order
RawCards(txt, ts, picks) ==
    LET sentences == sent_tokenize(txt)
    IN  _extract_definition_cards(sentences, ts)
            \o _generate_concept_questions(ts, sentences, picks)
            \o _generate_comparison_questions(ts, sentences)
            \o _generate_feature_questions(ts, sentences)
            \o _generate_process_questions(ts, sentences)

\* the loop that adds id and difficulty to each card of the list
AddMetadata(cards) ==
    [i \in 1..Len(cards) |->
        [question |-> cards[i].question,
         answer |-> cards[i].answer,
         topic |-> cards[i].topic,
         type |-> cards[i].type,
         id |-> i,
         difficulty |-> _assign_difficulty(cards[i])]]

\* a variant that does not cut the list to num_cards
finish_untruncated(cards, n) ==
    AddMetadata(_remove_duplicates(cards))

\* a variant that numbers the candidates before duplicates are removed
finish_ids_first(cards, n) ==
    Take(_remove_duplicates(AddMetadata(cards)), n)

\* the tail of generate, applied to the candidates of the five strategies:
\* remove duplicates, cut to num_cards, then number and grade the cards
finish(cards, n) ==
    AddMetadata(Take(_remove_duplicates(cards), n))

\* FlashcardGenerator.generate; n is num_cards >= 0
generate(txt, ts, n, picks) ==
    finish(RawCards(txt, ts, picks), n)

\* ------------------------------------------------------------------------
\* LearningPathGenerator (core/learning_path.py)
\* ------------------------------------------------------------------------

\* General
General ==
    <<"G", "e", "n", "e", "r", "a", "l">>

\* Learn about 
LearnAbout ==
    <<"L", "e", "a", "r", "n", " ", "a", "b", "o", "u", "t", " ">>

\* self.difficulty_weights.get(difficulty, 1)
difficulty_weights(difficulty) ==
    CASE difficulty = "easy" -> 1
      [] difficulty = "medium" -> 2
      [] difficulty = "hard" -> 3
      [] OTHER -> 1

\* card.get('topic', 'General')
CardTopic(card) ==
    IF "topic" \in DOMAIN card THEN card.topic ELSE General

\* card.get('difficulty', 'medium')
CardDifficulty(card) ==
    IF "difficulty" \in DOMAIN card THEN card.difficulty ELSE "medium"

\* _group_by_topic(flashcards).get(topic, []): the cards filed under topic
_group_by_topic(cards, topic) ==
    Filter(cards, [i \in 1..Len(cards) |-> CardTopic(cards[i]) = topic])

\* how many of the cards have the difficulty d
DifficultyCount(cards, d) ==
    Cardinality({i \in 1..Len(cards) : CardDifficulty(cards[i]) = d})

\* a variant in which half of the cards are enough for hard or easy
_determine_step_difficulty_half(cards) ==
    IF Len(cards) = 0 THEN "medium"
    ELSE IF 2 * DifficultyCount(cards, "hard") >= Len(cards) THEN "hard"
    ELSE IF 2 * DifficultyCount(cards, "easy") >= Len(cards) THEN "easy"
    ELSE "medium"

\* LearningPathGenerator._determine_step_difficulty
\* (count > len(cards) * 0.5 is 2 * count > len(cards))
_determine_step_difficulty(cards) ==
    IF Len(cards) = 0 THEN "medium"
    ELSE IF 2 * DifficultyCount(cards, "hard") > Len(cards) THEN "hard"
    ELSE IF 2 * DifficultyCount(cards, "easy") > Len(cards) THEN "easy"
    ELSE "medium"

BaseTime == 15

TimePerCard == 2

\* a variant that leaves the difficulty out of the time
_estimate_time_unweighted(step) ==
    BaseTime + step.num_flashcards * TimePerCard

\* LearningPathGenerator._estimate_time
_estimate_time(step) ==
    (BaseTime + step.num_flashcards * TimePerCard)
        * difficulty_weights(step.difficulty)

StepLimit == 10

\* a variant that leaves every step available
StepStatusAllAvailable(i) == "available"

\* 'locked' if i > 0 else 'available', i the 0-based index of the step
StepStatus(i) == IF i > 0 THEN "locked" ELSE "available"

\* a variant that makes a step for every topic
_create_learning_steps_unlimited(ts, cards) ==
    [n \in 1..Len(ts) |->
        [step_number |-> n,
         topic |-> ts[n],
         description |-> LearnAbout \o ts[n],
         num_flashcards |-> Len(_group_by_topic(cards, ts[n])),
         difficulty |-> _determine_step_difficulty(_group_by_topic(cards, ts[n])),
         status |-> StepStatus(n - 1)]]

\* LearningPathGenerator._create_learning_steps
_create_learning_steps(ts, cards) ==
    [n \in 1..Min(Len(ts), StepLimit) |->
        [step_number |-> n,
         topic |-> ts[n],
         description |-> LearnAbout \o ts[n],
         num_flashcards |-> Len(_group_by_topic(cards, ts[n])),
         difficulty |-> _determine_step_difficulty(_group_by_topic(cards, ts[n])),
         status |-> StepStatus(n - 1)]]

\* [steps[j]['topic'] for j in range(i + 1)]: the step itself included
PrerequisitesInclusive(steps, i) == [j \in 1..(i + 1) |-> steps[j].topic]

\* [steps[j]['topic'] for j in range(i) if j < i], i the 0-based index
Prerequisites(steps, i) == [j \in 1..i |-> steps[j].topic]

\* LearningPathGenerator._get_difficulty_progression
_get_difficulty_progression(steps) ==
    [n \in 1..Len(steps) |->
        [step |-> steps[n].step_number, difficulty |-> steps[n].difficulty]]

RECURSIVE SumTime(_, _)
SumTime(steps, n) ==
    IF n = 0 THEN 0 ELSE steps[n].estimated_time + SumTime(steps, n - 1)

\* LearningPathGenerator.generate
generate_path(ts, cards) ==
    LET created == _create_learning_steps(ts, cards)
        timed == [n \in 1..Len(created) |->
                    [step_number |-> created[n].step_number,
                     topic |-> created[n].topic,
                     description |-> created[n].description,
                     num_flashcards |-> created[n].num_flashcards,
                     difficulty |-> created[n].difficulty,
                     status |-> created[n].status,
                     estimated_time |-> _estimate_time(created[n])]]
        steps == [n \in 1..Len(timed) |->
                    [step_number |-> timed[n].step_number,
                     topic |-> timed[n].topic,
                     description |-> timed[n].description,
                     num_flashcards |-> timed[n].num_flashcards,
                     difficulty |-> timed[n].difficulty,
                     status |-> timed[n].status,
                     estimated_time |-> timed[n].estimated_time,
                     prerequisites |-> Prerequisites(timed, n - 1)]]
    IN  [total_steps |-> Len(steps),
         total_time |-> SumTime(steps, Len(steps)),
         steps |-> steps,
         difficulty_progression |-> _get_difficulty_progression(steps)]

\* the value of learning_path before generate has returned
NoPath ==
    [total_steps |-> 0, total_time |-> 0, steps |-> <<>>,
     difficulty_progression |-> <<>>]

\* ------------------------------------------------------------------------
\* SummaryGenerator (core/summary_generator.py)
\* ------------------------------------------------------------------------

MinWordLen == 3

\* the maximal runs of the characters that \b counts as part of a word
WordRuns(s) ==
    LET starts == SortedSeq({i \in 1..Len(s) :
                      /\ s[i] \in WordChars
                      /\ (i = 1 \/ s[i - 1] \notin WordChars)})
        ends == SortedSeq({i \in 1..Len(s) :
                    /\ s[i] \in WordChars
                    /\ (i = Len(s) \/ s[i + 1] \notin WordChars)})
    IN  [k \in 1..Len(starts) |-> SubSeq(s, starts[k], ends[k])]

\* the runs that are made of letters only and have at least m of them
LetterRuns(runs, m) ==
    Filter(runs, [k \in 1..Len(runs) |->
                     /\ Len(runs[k]) >= m
                     /\ \A i \in 1..Len(runs[k]) : IsAlpha(runs[k][i])])

\* re.findall(r'\b[a-zA-Z]{m,}\b', s)
FindWordsMin(s, m) == LetterRuns(WordRuns(s), m)

\* re.findall(r'\b[a-zA-Z]{3,}\b', s)
FindWords(s) == FindWordsMin(s, MinWordLen)

\* word_freq.get(word, 0) for the Counter of the words of the text
WordFreq(words, word) == Cardinality({i \in 1..Len(words) : words[i] = word})

\* sum of word_freq over the words of one sentence
RECURSIVE FreqSum(_, _, _)
FreqSum(words, sentence_words, n) ==
    IF n = 0 THEN 0
    ELSE WordFreq(words, sentence_words[n])
             + FreqSum(words, sentence_words, n - 1)

\* SummaryGenerator._score_sentences: the items of the dict sentence_scores
\* in insertion order, one per distinct sentence, at its first occurrence;
\* the score sum / (len + 1) is kept as the fraction num / den
_score_sentences(sentences, full_text) ==
    LET words == FindWords(Lower(full_text))
        firsts == Filter(sentences, [i \in 1..Len(sentences) |->
                      \A j \in 1..(i - 1) : sentences[j] # sentences[i]])
    IN  [k \in 1..Len(firsts) |->
            LET sentence_words == FindWords(Lower(firsts[k]))
            IN  [sentence |-> firsts[k],
                 num |-> FreqSum(words, sentence_words, Len(sentence_words)),
                 den |-> Len(sentence_words) + 1]]

\* x.score > y.score, for fractions with positive denominators
ScoreAbove(x, y) == x.num * y.den > y.num * x.den

MinSummarySentences == 3

\* ratio is counted in tenths: RatioDen tenths are the ratio 1.0
RatioDen == 10

\* max(3, int(len(sentences) * ratio)), for a ratio of tenths >= 0
num_sentences(sentences, tenths) ==
    Max(MinSummarySentences, (Len(sentences) * tenths) \div RatioDen)

\* the items that sorted(..., reverse=True)[:n] keeps: sorted is stable, so
\* an item is preceded by the items of higher score and by the earlier items
\* of equal score
top_sentences(scores, n) ==
    {k \in 1..Len(scores) :
        Cardinality({j \in 1..Len(scores) :
            \/ ScoreAbove(scores[j], scores[k])
            \/ (~ScoreAbove(scores[k], scores[j]) /\ j < k)}) < n}

\* a variant that leaves the kept items in the order of their score
summary_sentences_by_score(scores, n) ==
    LET top == top_sentences(scores, n)
        before(k) == {j \in top :
                        \/ ScoreAbove(scores[j], scores[k])
                        \/ (~ScoreAbove(scores[k], scores[j]) /\ j < k)}
    IN  [r \in 1..Cardinality(top) |->
            scores[CHOOSE k \in top : Cardinality(before(k)) = r - 1].sentence]

\* the kept items sorted by sentences.index(sentence): the items are in the
\* order of their first occurrence already
summary_sentences(scores, n) ==
    LET top == SortedSeq(top_sentences(scores, n))
    IN  [k \in 1..Len(top) |-> scores[top[k]].sentence]

\* important_keywords
important_keywords ==
    <<<<"i", "m", "p", "o", "r", "t", "a", "n", "t">>,
      <<"k", "e", "y">>,
      <<"m", "a", "i", "n">>,
      <<"p", "r", "i", "m", "a", "r", "y">>,
      <<"e", "s", "s", "e", "n", "t", "i", "a", "l">>,
      <<"c", "r", "i", "t", "i", "c", "a", "l">>,
      <<"s", "i", "g", "n", "i", "f", "i", "c", "a", "n", "t">>,
      <<"f", "u", "n", "d", "a", "m", "e", "n", "t", "a", "l">>,
      <<"c", "o", "r", "e">>,
      <<"m", "a", "j", "o", "r">>>>

KeyPointScan == 30

KeyPointLimit == 5

KeyPointMin == 3

\* a variant that looks for keywords in every sentence of the text
_extract_key_points_everywhere(sentences) ==
    LET hits == Filter(sentences, [k \in 1..Len(sentences) |->
                    ContainsAny(important_keywords, Lower(sentences[k]))])
        found == [k \in 1..Min(Len(hits), KeyPointLimit) |-> Strip(hits[k])]
        key_points == IF Len(found) < KeyPointMin
                      THEN Take(sentences, KeyPointLimit)
                      ELSE found
    IN  Take(key_points, KeyPointLimit)

\* SummaryGenerator._extract_key_points
_extract_key_points(sentences) ==
    LET scanned == Take(sentences, KeyPointScan)
        hits == Filter(scanned, [k \in 1..Len(scanned) |->
                    ContainsAny(important_keywords, Lower(scanned[k]))])
        found == [k \in 1..Min(Len(hits), KeyPointLimit) |-> Strip(hits[k])]
        key_points == IF Len(found) < KeyPointMin
                      THEN Take(sentences, KeyPointLimit)
                      ELSE found
    IN  Take(key_points, KeyPointLimit)

NoSummary == [summary |-> <<>>, key_points |-> <<>>, original_length |-> 0,
              summary_length |-> 0, compression_ratio |-> <<0, 1>>]

\* the exception SummaryGenerator.generate raises, "none" if it returns:
\* the division for compression_ratio is by len(text.split())
generate_summary_raises(txt) ==
    IF WordCount(txt) = 0 THEN "ZeroDivisionError" ELSE "none"

\* SummaryGenerator.generate, when it returns; compression_ratio is kept as
\* the pair <<summary_length, original_length>> of the division
generate_summary(txt, tenths) ==
    LET sentences == sent_tokenize(txt)
        sentence_scores == _score_sentences(sentences, txt)
        kept == summary_sentences(sentence_scores,
                                  num_sentences(sentences, tenths))
        summary_text == Join(<<" ">>, kept)
    IN  [summary |-> summary_text,
         key_points |-> _extract_key_points(sentences),
         original_length |-> WordCount(txt),
         summary_length |-> WordCount(summary_text),
         compression_ratio |-> <<WordCount(summary_text), WordCount(txt)>>]

\* ------------------------------------------------------------------------
\* TextProcessor (core/text_processor.py)
\* ------------------------------------------------------------------------

\* stopwords.words('english') of nltk
NltkStopwords ==
    {Chars(w) : w \in
        {"i", "me", "my", "myself", "we", "our", "ours", "ourselves", "you",
         "you're", "you've", "you'll", "you'd", "your", "yours", "yourself",
         "yourselves", "he", "him", "his", "himself", "she", "she's", "her",
         "hers", "herself", "it", "it's", "its", "itself", "they", "them",
         "their", "theirs", "themselves", "what", "which", "who", "whom",
         "this", "that", "that'll", "these", "those", "am", "is", "are",
         "was", "were", "be", "been", "being", "have", "has", "had",
         "having", "do", "does", "did", "doing", "a", "an", "the", "and",
         "but", "if", "or", "because", "as", "until", "while", "of", "at",
         "by", "for", "with", "about", "against", "between", "into",
         "through", "during", "before", "after", "above", "below", "to",
         "from", "up", "down", "in", "out", "on", "off", "over", "under",
         "again", "further", "then", "once", "here", "there", "when",
         "where", "why", "how", "all", "any", "both", "each", "few", "more",
         "most", "other", "some", "such", "no", "nor", "not", "only", "own",
         "same", "so", "than", "too", "very", "s", "t", "can", "will",
         "just", "don", "don't", "should", "should've", "now", "d", "ll",
         "m", "o", "re", "ve", "y", "ain", "aren", "aren't", "couldn",
         "couldn't", "didn", "didn't", "doesn", "doesn't", "hadn", "hadn't",
         "hasn", "hasn't", "haven", "haven't", "isn", "isn't", "ma",
         "mightn", "mightn't", "mustn", "mustn't", "needn", "needn't",
         "shan", "shan't", "shouldn", "shouldn't", "wasn", "wasn't",
         "weren", "weren't", "won", "won't", "wouldn", "wouldn't"}}

\* the words __init__ adds to the stopwords
EnhancedStopwords ==
    {Chars(w) : w \in
        {"it", "they", "we", "that", "this", "these", "those", "a", "an",
         "the", "is", "are", "was", "were", "be", "been", "being", "have",
         "has", "had", "do", "does", "did", "will", "would", "should",
         "could", "may", "might", "must", "can", "time", "need", "make",
         "use", "used", "using", "also", "one", "two", "three", "first",
         "second", "third", "many", "some", "more", "most", "other", "such",
         "no", "nor", "not", "only", "own", "same", "so", "than", "too",
         "very", "just", "but", "what", "which", "who", "when", "where",
         "why", "how", "all", "each", "every", "both", "few", "way", "work",
         "part", "take", "get", "give", "made", "find", "tell", "ask",
         "show", "try", "leave", "call", "back", "keep", "let", "put",
         "said", "know", "come", "look", "want", "seem", "feel", "new",
         "right", "good", "old", "great", "little", "last", "long", "small",
         "large", "next", "early", "young", "important", "public", "bad",
         "able", "page", "pages", "version", "number", "numbers", "chapter",
         "section", "figure", "table", "see", "example", "examples"}}

\* range(100): the numbers whose decimal strings are stopwords
StopwordNumbers == 100

\* self.stopwords after __init__
stopwords ==
    NltkStopwords \cup EnhancedStopwords
        \cup {<<LowerLetters[i]>> : i \in 1..26}
        \cup {Str(i) : i \in 0..(StopwordNumbers - 1)}
        \cup {<<c>> : c \in {"=", "-", "_", "+", "*", "/", "\\", "|", "&",
                             "%", "$", "#", "@", "!", "?"}}

\* the least element of a non-empty set of numbers
SetMin(S) == CHOOSE x \in S : \A y \in S : x <= y

\* the greatest element of a non-empty set of numbers
SetMax(S) == CHOOSE x \in S : \A y \in S : x >= y

\* how many characters in a row from position p on are in the class, up to m:
\* what a greedy class{0,m} of a pattern consumes at p
RunLen(s, p, m, class) ==
    LET stops == {k \in 0..(m - 1) : p + k > Len(s) \/ s[p + k] \notin class}
    IN  IF stops = {} THEN m ELSE SetMin(stops)

\* the character classes of the patterns
LettersAndSpaces == UpperSet \cup LowerSet \cup Whitespace

UppersAndSpaces == UpperSet \cup Whitespace

Decoration == {"-", "="}

\* [-*...] of the bullet pattern; its other three characters (U+00E2,
\* U+20AC, U+00A2) are outside the alphabet of the texts
Bullets == {"-", "*"}

\* s[p:].startswith(sub)
StartsAt(s, p, sub) ==
    /\ p >= 1
    /\ p + Len(sub) - 1 <= Len(s)
    /\ \A k \in 1..Len(sub) : s[p + k - 1] = sub[k]

\* a match of a pattern: the last position it consumes and the span of its
\* group; NoMatch where the pattern does not match
NoMatch == [end |-> 0, from |-> 0, to |-> 0]

\* re.findall: the matches met scanning left to right, each search starting
\* after the end of the match before; m[p] is the match that starts at p
RECURSIVE Scan(_, _, _)
RECURSIVE ScanOn(_, _, _)
Scan(m, n, from) ==
    IF \A p \in from..n : m[p].end = 0 THEN <<>>
    ELSE ScanOn(m, n, m[SetMin({p \in from..n : m[p].end > 0})])

\* the first match and the matches after it
ScanOn(m, n, first) == <<first>> \o Scan(m, n, first.end + 1)

\* the group strings of a list of matches
Groups(s, found) ==
    [k \in 1..Len(found) |-> SubSeq(s, found[k].from, found[k].to)]

\* the group strings of re.findall(pattern, s), for the table of a pattern
FindAll(s, m) == Groups(s, Scan(m, Len(s), 1))

\* str.title(): a letter is upper-cased after a non-letter, lower-cased
\* after a letter
Title(s) ==
    [i \in 1..Len(s) |->
        IF ~IsAlpha(s[i]) THEN s[i]
        ELSE IF i = 1 \/ ~IsAlpha(s[i - 1]) THEN UpperChar(s[i])
        ELSE LowerChar(s[i])]

\* re.sub(r'\s+', ' ', s): every run of whitespace becomes one space
CollapseSpaces(s) ==
    Filter([i \in 1..Len(s) |-> IF IsSpace(s[i]) THEN " " ELSE s[i]],
           [i \in 1..Len(s) |->
               ~IsSpace(s[i]) \/ i = 1 \/ ~IsSpace(s[i - 1])])

\* the bounds {3,40} and {5,40} of the header and list patterns, and the
\* {3,} of the decoration
HeaderMin == 3

HeaderMax == 40

CapsMin == 4

CapsMax == 30

DecorationMin == 3

ListMin == 5

ListMax == 40

\* the group strings of at most one match
MatchGroups(s, m) ==
    IF m.end = 0 THEN <<>> ELSE <<SubSeq(s, m.from, m.to)>>

\* the group ([A-Z][A-Za-z\s]{min,max}) at position u, where c letters and
\* spaces follow the first character
CapitalGroup(s, u, c, min) ==
    IF u <= Len(s) /\ IsUpper(s[u]) /\ c >= min
    THEN [end |-> u + c, from |-> u, to |-> u + c]
    ELSE NoMatch

\* \s+([A-Z][A-Za-z\s]{min,max}) at position q, where w spaces stand
SpacedCapitalGroup(s, q, w, min, max) ==
    IF w = 0 THEN NoMatch
    ELSE CapitalGroup(s, q + w,
                      RunLen(s, q + w + 1, max, LettersAndSpaces), min)

\* ^([A-Z][A-Za-z\s]{3,40})$ on the line without its colon
CapitalBody(body) ==
    IF /\ Len(body) >= 1 + HeaderMin
       /\ Len(body) <= 1 + HeaderMax
       /\ IsUpper(body[1])
       /\ \A i \in 2..Len(body) : body[i] \in LettersAndSpaces
    THEN <<body>>
    ELSE <<>>

\* re.findall(r'^([A-Z][A-Za-z\s]{3,40}):?\s*$', line) on a stripped line
HeaderCapital(line) ==
    CapitalBody(IF line # <<>> /\ line[Len(line)] = ":"
                THEN SubSeq(line, 1, Len(line) - 1)
                ELSE line)

\* \s+([A-Z][A-Za-z\s]{3,40}) at position q, after d digits and the dot
NumberedBody(line, d, q) ==
    IF d = 0 THEN <<>>
    ELSE MatchGroups(line,
             SpacedCapitalGroup(line, q, RunLen(line, q, Len(line), Whitespace),
                                HeaderMin, HeaderMax))

\* \.?\s+([A-Z][A-Za-z\s]{3,40}) after the d digits a line starts with
DigitsThenDot(line, d) ==
    NumberedBody(line, d,
                 IF d + 1 <= Len(line) /\ line[d + 1] = "." THEN d + 2
                 ELSE d + 1)

\* re.findall(r'^\d+\.?\s+([A-Z][A-Za-z\s]{3,40})', line)
HeaderNumbered(line) == DigitsThenDot(line, RunLen(line, 1, Len(line), Digits))

\* re.findall(r'^([A-Z\s]{4,30})$', line)
HeaderAllCaps(line) ==
    IF /\ Len(line) >= CapsMin
       /\ Len(line) <= CapsMax
       /\ \A i \in 1..Len(line) : line[i] \in UppersAndSpaces
    THEN <<line>>
    ELSE <<>>

\* \s*([A-Za-z\s]{3,40})\s*[-=]{3,} at position q: a run of r letters and
\* spaces, w of them leading spaces, and the closing decoration; the group
\* is what is left of the run after the leading spaces, or the last 3 of
\* the run when that is too short
DecoratedGroup(line, q, r, w) ==
    IF RunLen(line, q + r, DecorationMin, Decoration) < DecorationMin
    THEN <<>>
    ELSE IF /\ r - w >= HeaderMin
            /\ \A i \in (q + w + Min(HeaderMax, r - w))..(q + r - 1) :
                   IsSpace(line[i])
    THEN <<SubSeq(line, q + w, q + w + Min(HeaderMax, r - w) - 1)>>
    ELSE IF r - w < HeaderMin /\ r >= HeaderMin
    THEN <<SubSeq(line, q + r - HeaderMin, q + r - 1)>>
    ELSE <<>>

\* the rest of the pattern after the d characters of the opening decoration
DecoratedBody(line, d) ==
    IF d < DecorationMin THEN <<>>
    ELSE DecoratedGroup(line, d + 1,
                        RunLen(line, d + 1, Len(line), LettersAndSpaces),
                        RunLen(line, d + 1, Len(line), Whitespace))

\* re.findall(r'^\s*[-=]{3,}\s*([A-Za-z\s]{3,40})\s*[-=]{3,}', line) on a
\* stripped line
HeaderDecorated(line) ==
    DecoratedBody(line, RunLen(line, 1, Len(line), Decoration))

\* the pattern [-*...]\s+([A-Z][A-Za-z\s]{5,40}) at position p
BulletMatch(s, p) ==
    IF s[p] \notin Bullets THEN NoMatch
    ELSE SpacedCapitalGroup(s, p + 1, RunLen(s, p + 1, Len(s), Whitespace),
                            ListMin, ListMax)

\* \)\s+([A-Z][A-Za-z\s]{5,40}) at position q
AfterNumber(s, q) ==
    IF q > Len(s) \/ s[q] # ")" THEN NoMatch
    ELSE SpacedCapitalGroup(s, q + 1, RunLen(s, q + 1, Len(s), Whitespace),
                            ListMin, ListMax)

\* the pattern \d+\)\s+([A-Z][A-Za-z\s]{5,40}) at position p
NumberedMatch(s, p) ==
    IF s[p] \notin Digits THEN NoMatch
    ELSE AfterNumber(s, p + RunLen(s, p, Len(s), Digits))

TopicMinLen == 3

TopicMaxLen == 60

\* the share of letters a topic needs: 0.6, as 6 / 10
LetterShare == 6

ShareDen == 10

\* re.match of page\s*\d+ or of figure\s*\d+ on the lower-cased term
IsReference(term_lower, word) ==
    /\ StartsAt(term_lower, 1, word)
    /\ RunLen(term_lower,
              Len(word) + 1
                  + RunLen(term_lower, Len(word) + 1, Len(term_lower),
                           Whitespace),
              1, Digits) = 1

\* re.match of one of the junk_patterns on the lower-cased term
IsJunk(term_lower) ==
    \/ /\ term_lower # <<>>
       /\ \A i \in 1..Len(term_lower) : term_lower[i] \in Digits
    \/ /\ term_lower # <<>>
       /\ \A i \in 1..Len(term_lower) : term_lower[i] \notin WordChars
    \/ IsReference(term_lower, Chars("page"))
    \/ IsReference(term_lower, Chars("figure"))

\* all(word in self.stopwords for word in words)
AllStopwords(words) == \A i \in 1..Len(words) : words[i] \in stopwords

\* the tests of _is_meaningful_topic on the stripped term
MeaningfulTerm(term, term_lower) ==
    /\ Len(term) >= TopicMinLen
    /\ Len(term) <= TopicMaxLen
    /\ term_lower \notin stopwords
    /\ Cardinality({i \in 1..Len(term) : IsAlpha(term[i])}) * ShareDen
           >= Len(term) * LetterShare
    /\ ~AllStopwords(Words(term_lower))
    /\ ~IsJunk(term_lower)

\* TextProcessor._is_meaningful_topic
_is_meaningful_topic(raw) ==
    /\ raw # <<>>
    /\ MeaningfulTerm(Strip(raw), Lower(Strip(raw)))

\* the terms of a list that _is_meaningful_topic accepts
MeaningfulOnly(terms) ==
    Filter(terms, [k \in 1..Len(terms) |-> _is_meaningful_topic(terms[k])])

\* every term stripped
StripAll(terms) == [k \in 1..Len(terms) |-> Strip(terms[k])]

\* every term in title case
TitleAll(terms) == [k \in 1..Len(terms) |-> Title(terms[k])]

\* the terms at a list of positions, in title case
TitleAt(terms, at) == [k \in 1..Len(at) |-> Title(terms[at[k]])]

StructureLimit == 20

\* the matches of the four header patterns on a stripped line
HeaderMatches(line) ==
    HeaderCapital(line) \o HeaderNumbered(line) \o HeaderAllCaps(line)
        \o HeaderDecorated(line)

RECURSIVE Concat(_, _)
\* the concatenation of the first n lists of a list of lists
Concat(lists, n) ==
    IF n = 0 THEN <<>> ELSE Concat(lists, n - 1) \o lists[n]

\* the topics the header patterns give, line by line
HeaderTopics(lines) ==
    Concat([k \in 1..Len(lines) |->
               StripAll(MeaningfulOnly(HeaderMatches(Strip(lines[k]))))],
           Len(lines))

\* the topics one list pattern gives over the whole text
ListTopics(txt, m) == StripAll(MeaningfulOnly(FindAll(txt, m)))

\* TextProcessor._extract_from_text_structure
_extract_from_text_structure(txt) ==
    Take(HeaderTopics(SplitOn(txt, {NL}))
             \o ListTopics(txt, [p \in 1..Len(txt) |-> BulletMatch(txt, p)])
             \o ListTopics(txt, [p \in 1..Len(txt) |-> NumberedMatch(txt, p)]),
         StructureLimit)

\* the items of Counter(words) in insertion order: the position of the first
\* occurrence of every distinct word
FirstOccurrences(words) ==
    SortedSeq({i \in 1..Len(words) : \A j \in 1..(i - 1) : words[j] # words[i]})

\* the count of the word at position i
CountOf(words, i) == Cardinality({j \in 1..Len(words) : words[j] = words[i]})

\* the distinct words sorted by falling count, words of equal count in
\* insertion order: firsts are the positions of the distinct words
ByCount(words, firsts, size) ==
    SortedSeq({(size - CountOf(words, firsts[k])) * size + firsts[k] :
                  k \in 1..Len(firsts)})

\* the first n positions of a list of sort keys
FirstKeys(sorted, n, size) ==
    [k \in 1..Min(n, Len(sorted)) |-> sorted[k] % size]

\* Counter(words).most_common(n): the distinct words by falling count, words
\* of equal count in insertion order; given as positions in words
most_common(words, n) ==
    FirstKeys(ByCount(words, FirstOccurrences(words), Len(words) + 1), n,
              Len(words) + 1)

SpaceIs == Chars(" is")

SpaceAre == Chars(" are")

SpaceMeans == Chars(" means")

SpaceRefers == Chars(" refers")

ConceptOf == Chars("concept of ")

Understanding == Chars("understanding ")

MinContexts == 2

RichContextWords == 5

\* the pieces that have sub in them
SentencesWith(sub, pieces) ==
    Filter(pieces, [k \in 1..Len(pieces) |-> Contains(sub, pieces[k])])

\* the tests of _has_meaning_indicators on the sentences with the word
HasContexts(word_lower, text_lower, sentences_with_word) ==
    /\ Len(sentences_with_word) >= MinContexts
    /\ \/ ContainsAny(<<word_lower \o SpaceIs, word_lower \o SpaceAre,
                        word_lower \o SpaceMeans, word_lower \o SpaceRefers,
                        ConceptOf \o word_lower, Understanding \o word_lower>>,
                      text_lower)
       \/ Cardinality({k \in 1..Len(sentences_with_word) :
              WordCount(sentences_with_word[k]) > RichContextWords})
              >= MinContexts

\* TextProcessor._has_meaning_indicators, for a lower-case word
_has_meaning_indicators(word_lower, text_lower) ==
    HasContexts(word_lower, text_lower,
                SentencesWith(word_lower, SplitOn(text_lower, {"."})))

FrequencyScan == 100

FrequencyMin == 3

FrequencyWordLen == 4

FrequencyLimit == 15

\* the tests of _extract_high_frequency_terms on the word at position i
FrequentWord(words, i, text_lower) ==
    /\ CountOf(words, i) >= FrequencyMin
    /\ Len(words[i]) > FrequencyWordLen
    /\ words[i] \notin stopwords
    /\ _has_meaning_indicators(words[i], text_lower)

\* the terms among the most common words
FrequentTerms(words, common, text_lower) ==
    TitleAt(words,
            Take(Filter(common, [k \in 1..Len(common) |->
                            FrequentWord(words, common[k], text_lower)]),
                 FrequencyLimit))

\* the terms among the words of the lower-cased text
WordTerms(words, text_lower) ==
    FrequentTerms(words, most_common(words, FrequencyScan), text_lower)

\* TextProcessor._extract_high_frequency_terms
_extract_high_frequency_terms(txt) ==
    WordTerms(FindWordsMin(Lower(txt), MinWordLen), Lower(txt))

\* the token that starts at position i
TokenAt(s, i) ==
    IF s[i] \in WordChars
    THEN SubSeq(s, i, i + RunLen(s, i, Len(s), WordChars) - 1)
    ELSE <<s[i]>>

\* the tokens that start at a list of positions
TokensAt(s, starts) == [k \in 1..Len(starts) |-> TokenAt(s, starts[k])]

\* nltk's word_tokenize on a piece of plain prose: the runs of word
\* characters, and every other character that is not whitespace on its own
word_tokenize(s) ==
    TokensAt(s, SortedSeq({i \in 1..Len(s) :
                    /\ ~IsSpace(s[i])
                    /\ \/ s[i] \notin WordChars
                       \/ i = 1
                       \/ s[i - 1] \notin WordChars}))

NounSentences == 30

NounSentenceLen == 10

NounWordLen == 2

NounScan == 20

NounMin == 2

\* a token that the loop of _extract_capitalized_nouns adds to the phrase;
\* nouns is the set of words pos_tag tags NN, NNS, NNP or NNPS
IsCapitalNoun(word, nouns) ==
    /\ word \in nouns
    /\ IsUpper(word[1])
    /\ Len(word) > NounWordLen
    /\ Lower(word) \notin stopwords

\* the phrase that ends with the token at position e
PhraseEnding(words, keep, e) ==
    Join(<<" ">>,
         SubSeq(words, SetMin({k \in 1..e : \A j \in k..e : keep[j]}), e))

\* the phrases that end at a list of positions
PhrasesAt(words, keep, ends) ==
    [e \in 1..Len(ends) |-> PhraseEnding(words, keep, ends[e])]

\* the meaningful phrases: the runs of kept tokens that another token ends
KeptPhrases(words, keep) ==
    MeaningfulOnly(
        PhrasesAt(words, keep,
                  SortedSeq({k \in 1..(Len(words) - 1) :
                                keep[k] /\ ~keep[k + 1]})))

\* the phrases of a list of tokens
TokenPhrases(words, nouns) ==
    KeptPhrases(words,
                [k \in 1..Len(words) |-> IsCapitalNoun(words[k], nouns)])

\* the phrases of one sentence
NounPhrases(sentence, nouns) == TokenPhrases(word_tokenize(sentence), nouns)

\* the sentences with len(sentence.strip()) >= 10
LongSentences(sentences) ==
    Filter(sentences, [k \in 1..Len(sentences) |->
                          Len(Strip(sentences[k])) >= NounSentenceLen])

\* capitalized_terms: the phrases of the sentences, sentence by sentence
SentencePhrases(sentences, nouns) ==
    Concat([k \in 1..Len(sentences) |-> NounPhrases(sentences[k], nouns)],
           Len(sentences))

\* the terms at a list of positions
TermsAt(terms, at) == [k \in 1..Len(at) |-> terms[at[k]]]

\* the most common terms that occur at least twice
RepeatedAmong(terms, common) ==
    TermsAt(terms,
            Filter(common, [k \in 1..Len(common) |->
                               CountOf(terms, common[k]) >= NounMin]))

\* the terms of most_common(20) that occur at least twice
RepeatedTerms(terms) == RepeatedAmong(terms, most_common(terms, NounScan))

\* TextProcessor._extract_capitalized_nouns; when pos_tag is not available
\* the exception handler returns [], the result for nouns = {}
_extract_capitalized_nouns(txt, nouns) ==
    RepeatedTerms(
        SentencePhrases(
            LongSentences(Take(ReSplitRuns(txt, SentenceEnd), NounSentences)),
            nouns))

ContextMin == 3

ContextMax == 30

ContextLimit == 10

\* the alternatives of the four context patterns
IntroducedBy ==
    <<Chars("concept of"), Chars("definition of"), Chars("meaning of"),
      Chars("understanding")>>

DefinedBy ==
    <<Chars("is"), Chars("are"), Chars("means"), Chars("refers to")>>

PresentedBy ==
    <<Chars("introducing"), Chars("explaining"), Chars("discussing")>>

ComposedBy ==
    <<Chars("involves"), Chars("includes"), Chars("contains")>>

\* the length of the first alternative that the lower-cased text has at p,
\* 0 if it has none
AlternativeAt(low, p, alternatives) ==
    LET hits == {a \in 1..Len(alternatives) : StartsAt(low, p, alternatives[a])}
    IN  IF hits = {} THEN 0 ELSE Len(alternatives[SetMin(hits)])

\* \s+([A-Za-z\s]{3,30}) at position q: a run of r letters and spaces, w of
\* them leading spaces; the group is what follows the leading spaces, or
\* the last 3 of the run when that is too short
LeadGroup(q, r, w) ==
    IF w = 0 THEN NoMatch
    ELSE IF r - w >= ContextMin
    THEN [end |-> q + w + Min(ContextMax, r - w) - 1,
          from |-> q + w,
          to |-> q + w + Min(ContextMax, r - w) - 1]
    ELSE IF r > ContextMin
    THEN [end |-> q + r - 1, from |-> q + r - ContextMin, to |-> q + r - 1]
    ELSE NoMatch

\* the rest of the pattern after an alternative of length a at position p
LeadAfter(s, p, a) ==
    IF a = 0 THEN NoMatch
    ELSE LeadGroup(p + a, RunLen(s, p + a, Len(s), LettersAndSpaces),
                   RunLen(s, p + a, Len(s), Whitespace))

\* a pattern (?:alternatives)\s+([A-Za-z\s]{3,30}) at position p, ignoring
\* case
LeadMatch(s, low, p, alternatives) ==
    LeadAfter(s, p, AlternativeAt(low, p, alternatives))

\* the first position at or after q that is not whitespace
AfterSpaces(s, q) == q + RunLen(s, q, Len(s), Whitespace)

\* the match whose group has L characters after its first
TrailGroup(p, L, next, a) == [end |-> next + a - 1, from |-> p, to |-> p + L]

\* the match with the longest of the groups that fit
TrailLongest(s, low, p, fits, alternatives) ==
    IF fits = {} THEN NoMatch
    ELSE TrailGroup(p, SetMax(fits), AfterSpaces(s, p + SetMax(fits) + 1),
                    AlternativeAt(low, AfterSpaces(s, p + SetMax(fits) + 1),
                                  alternatives))

\* a pattern ([A-Z][A-Za-z\s]{3,30})\s+(?:alternatives) at position p,
\* ignoring case: the group is the longest stretch of a letter and 3 to 30
\* letters and spaces that whitespace and an alternative follow
TrailMatch(s, low, p, alternatives) ==
    IF ~IsAlpha(s[p]) THEN NoMatch
    ELSE TrailLongest(s, low, p,
             {L \in ContextMin..RunLen(s, p + 1, ContextMax, LettersAndSpaces) :
                 /\ p + L + 1 <= Len(s)
                 /\ IsSpace(s[p + L + 1])
                 /\ AlternativeAt(low, AfterSpaces(s, p + L + 1),
                                  alternatives) > 0},
             alternatives)

\* re.sub(r'\s+', ' ', match.strip()) for every match
CleanAll(matches) ==
    [k \in 1..Len(matches) |-> CollapseSpaces(Strip(matches[k]))]

\* the terms one context pattern gives
ContextTerms(s, m) == TitleAll(MeaningfulOnly(CleanAll(FindAll(s, m))))

\* the terms of the four context patterns on the text and its lower case
PatternTerms(txt, low) ==
    ContextTerms(txt, [p \in 1..Len(txt) |->
                          LeadMatch(txt, low, p, IntroducedBy)])
        \o ContextTerms(txt, [p \in 1..Len(txt) |->
                                 TrailMatch(txt, low, p, DefinedBy)])
        \o ContextTerms(txt, [p \in 1..Len(txt) |->
                                 LeadMatch(txt, low, p, PresentedBy)])
        \o ContextTerms(txt, [p \in 1..Len(txt) |->
                                 TrailMatch(txt, low, p, ComposedBy)])

\* TextProcessor._extract_context_based_terms
_extract_context_based_terms(txt) ==
    Take(PatternTerms(txt, Lower(txt)), ContextLimit)

ClusterWordMin == 4

ClusterWordLen == 4

ClusterWindow == 2

ClusterContexts == 5

ClusterLimit == 10

\* the words that are no stopwords and have more than 4 letters
LongWords(words) ==
    Filter(words, [k \in 1..Len(words) |->
                      /\ words[k] \notin stopwords
                      /\ Len(words[k]) > ClusterWordLen])

\* the words of one sentence that the clusters are built from
ClusterWords(sentence) ==
    LongWords(FindWordsMin(Lower(sentence), ClusterWordMin))

\* the words of every sentence
SentenceWords(sentences) ==
    [k \in 1..Len(sentences) |-> ClusterWords(sentences[k])]

\* the other words within the window around an occurrence of the word in
\* the words of one sentence
Neighbours(line, word) ==
    {line[j] : j \in {j \in 1..Len(line) :
                         /\ \E i \in 1..Len(line) :
                                /\ line[i] = word
                                /\ j >= i - ClusterWindow
                                /\ j <= i + ClusterWindow
                         /\ line[j] # word}}

\* word_contexts[word]
Contexts(words, word) ==
    UNION {Neighbours(words[k], word) : k \in 1..Len(words)}

\* the first words, in insertion order, that have 5 contexts or more
ClusterTerms(words, all, firsts) ==
    TitleAt(all,
            Take(Filter(firsts, [k \in 1..Len(firsts) |->
                            Cardinality(Contexts(words, all[firsts[k]]))
                                >= ClusterContexts]),
                 ClusterLimit))

\* the terms among all the words of the sentences
AllClusterTerms(words, all) == ClusterTerms(words, all, FirstOccurrences(all))

\* the terms of the words of the sentences
SentenceClusters(words) == AllClusterTerms(words, Concat(words, Len(words)))

\* TextProcessor._extract_semantic_clusters
_extract_semantic_clusters(txt) ==
    SentenceClusters(SentenceWords(ReSplitRuns(txt, SentenceEnd)))

\* ' '.join(topic.split()).strip().title() for every topic
Normalize(good) ==
    [k \in 1..Len(good) |-> Title(Strip(CollapseSpaces(good[k])))]

\* every term in lower case
LowerAll(terms) == [k \in 1..Len(terms) |-> Lower(terms[k])]

\* the topics whose lower case no earlier topic has
FirstOfEach(normal, low) ==
    Filter(normal, [k \in 1..Len(normal) |->
                       \A j \in 1..(k - 1) : low[j] # low[k]])

\* a variant that keeps the later duplicates
KeepDuplicates(normal) == normal

\* the topics without the later duplicates
Unique(normal) == FirstOfEach(normal, LowerAll(normal))

\* TextProcessor._clean_and_filter_topics
_clean_and_filter_topics(found) == Unique(Normalize(MeaningfulOnly(found)))

\* the match of a substring at position p
SubstringAt(s, p, sub) ==
    IF StartsAt(s, p, sub)
    THEN [end |-> p + Len(sub) - 1, from |-> p, to |-> p + Len(sub) - 1]
    ELSE NoMatch

\* str.count(sub): the occurrences met left to right without overlap
CountOccurrences(sub, s) ==
    Len(Scan([p \in 1..Len(s) |-> SubstringAt(s, p, sub)], Len(s), 1))

FrequencyWeight == 100

PositionWeight == 1000

ContextWeight == 10

WordWeight == 50

CapitalBonus == 100

\* frequency_score + context_score + word_count_score + capital_score
WholeScore(topic, topic_lower, text_lower) ==
    CountOccurrences(topic_lower, text_lower) * FrequencyWeight
        + Len(SentencesWith(topic_lower, SplitOn(text_lower, {"."})))
              * ContextWeight
        + WordCount(topic) * WordWeight
        + (IF IsUpper(topic[1]) THEN CapitalBonus ELSE 0)

\* the score with position_score = 1000 / (first_occurrence + 1) added, for
\* the places where the topic is found
ScoreAt(whole, found) ==
    IF found = {} THEN [num |-> whole, den |-> 1]
    ELSE [num |-> whole * SetMin(found) + PositionWeight,
          den |-> SetMin(found)]

\* the places of a substring
Places(sub, s) == {p \in 1..Len(s) : StartsAt(s, p, sub)}

\* total_score of a topic, as the fraction num / den (den > 0)
total_score(topic, text_lower) ==
    ScoreAt(WholeScore(topic, Lower(topic), text_lower),
            Places(Lower(topic), text_lower))

\* how many of the scored topics come before the k-th of them
Place(score, scored, k) ==
    Cardinality({j \in 1..Len(scored) :
        \/ ScoreAbove(score[scored[j]], score[scored[k]])
        \/ /\ ~ScoreAbove(score[scored[k]], score[scored[j]])
           /\ j < k})

\* the scored topics in the order of the sort
InOrder(cleaned, score, scored) ==
    [r \in 1..Len(scored) |->
        cleaned[scored[CHOOSE k \in 1..Len(scored) :
                           Place(score, scored, k) = r - 1]]]

\* the topics with total_score > 0, sorted
Ranked(cleaned, score) ==
    InOrder(cleaned, score,
            SortedSeq({k \in 1..Len(cleaned) : score[k].num > 0}))

\* a variant that returns the cleaned topics as they came
_rank_by_importance_unsorted(cleaned, txt) == cleaned

\* TextProcessor._rank_by_importance: list.sort is stable, so a topic comes
\* after the topics of higher score and the earlier topics of equal score
_rank_by_importance(cleaned, txt) ==
    Ranked(cleaned,
           [k \in 1..Len(cleaned) |-> total_score(cleaned[k], Lower(txt))])

ShortText == 50

TopicLimit == 15

GeneralTopic == Chars("General Topic")

\* the candidates of the five strategies, in the order extract_topics
\* collects them
CandidateTopics(txt, nouns) ==
    _extract_from_text_structure(txt)
        \o _extract_high_frequency_terms(txt)
        \o _extract_capitalized_nouns(txt, nouns)
        \o _extract_context_based_terms(txt)
        \o _extract_semantic_clusters(txt)

\* a variant that runs the strategies on every text
extract_topics_always(txt, nouns) ==
    Take(_rank_by_importance(
             _clean_and_filter_topics(CandidateTopics(txt, nouns)), txt),
         TopicLimit)

\* a variant that returns every ranked topic
extract_topics_unlimited(txt, nouns) ==
    IF Len(txt) < ShortText THEN <<GeneralTopic>>
    ELSE _rank_by_importance(
             _clean_and_filter_topics(CandidateTopics(txt, nouns)), txt)

\* TextProcessor.extract_topics
extract_topics(txt, nouns) ==
    IF Len(txt) < ShortText THEN <<GeneralTopic>>
    ELSE Take(_rank_by_importance(
                  _clean_and_filter_topics(CandidateTopics(txt, nouns)), txt),
              TopicLimit)

\* a variant whose instance keeps what it has returned and returns nothing
\* twice
extract_topics_once(served, txt, nouns) ==
    IF served = 0 THEN extract_topics(txt, nouns) ELSE <<>>

\* extract_topics called on an instance that has served `served` calls:
\* __init__ alone writes self.stopwords, the one attribute of the instance,
\* and the methods only test membership in it
extract_topics_on(served, txt, nouns) == extract_topics(txt, nouns)

\* ------------------------------------------------------------------------
\* Helpers (utils/helpers.py) and FileParser (core/file_parser.py)
\* ------------------------------------------------------------------------

\* Config.ALLOWED_EXTENSIONS
ALLOWED_EXTENSIONS ==
    {Chars("pdf"), Chars("txt"), Chars("docx"), Chars("mp4"), Chars("avi"),
     Chars("mov"), Chars("mkv"), Chars("webm")}

\* the position of the last dot of a name, 0 if it has none
LastDot(name) ==
    IF \A i \in 1..Len(name) : name[i] # "." THEN 0
    ELSE SetMax({i \in 1..Len(name) : name[i] = "."})

\* Helpers.get_file_extension
get_file_extension(name) ==
    IF LastDot(name) = 0 THEN <<>> ELSE Lower(Drop(name, LastDot(name)))

\* Helpers.allowed_file(filename, Config.ALLOWED_EXTENSIONS)
allowed_file(name) ==
    /\ LastDot(name) > 0
    /\ Lower(Drop(name, LastDot(name))) \in ALLOWED_EXTENSIONS

\* the characters werkzeug's secure_filename keeps
FilenameChars == UpperSet \cup LowerSet \cup Digits \cup {"_", ".", "-"}

\* s.strip(chars)
StripOf(s, D) ==
    IF \A i \in 1..Len(s) : s[i] \in D THEN <<>>
    ELSE SubSeq(s, SetMin({i \in 1..Len(s) : s[i] \notin D}),
                   SetMax({i \in 1..Len(s) : s[i] \notin D}))

\* s.replace('/', ' ')
SlashToSpace(s) == [i \in 1..Len(s) |-> IF s[i] = "/" THEN " " ELSE s[i]]

\* the characters of s that are in D
KeepChars(s, D) == Filter(s, [i \in 1..Len(s) |-> s[i] \in D])

\* werkzeug.utils.secure_filename on an ASCII name: path separators become
\* spaces, runs of whitespace one underscore, every character outside
\* [A-Za-z0-9_.-] is dropped, and dots and underscores are stripped off
\* both ends
secure_filename(name) ==
    StripOf(KeepChars(Join(<<"_">>, Words(SlashToSpace(name))), FilenameChars),
            {".", "_"})

\* the name with the timestamp before its extension
WithTimestamp(name, timestamp) ==
    IF LastDot(name) = 0 THEN name \o <<"_">> \o timestamp
    ELSE Take(name, LastDot(name) - 1) \o <<"_">> \o timestamp \o <<".">>
             \o Drop(name, LastDot(name))

\* Helpers.secure_filename_with_timestamp; timestamp is what
\* datetime.now().strftime('%Y%m%d_%H%M%S') returns
secure_filename_with_timestamp(name, timestamp) ==
    WithTimestamp(secure_filename(name), timestamp)

\* Path.stem of a file name
Stem(name) ==
    IF LastDot(name) <= 1 THEN name ELSE Take(name, LastDot(name) - 1)

\* the exception FileParser.parse raises for a stored file, "none" if it
\* returns: a name without a supported extension is a ValueError, a
\* document that python-docx cannot read an Exception
parse_raises(name, file) ==
    IF get_file_extension(name) = Chars("txt") THEN "none"
    ELSE IF get_file_extension(name) = Chars("docx")
    THEN (IF file.readable THEN "none" ELSE "Exception")
    ELSE "ValueError"

\* FileParser.parse for a text file and for a document that can be read:
\* file.read().strip(), and the joined paragraphs stripped
parse(name, file) == Strip(file.content)

\* ------------------------------------------------------------------------
\* Database (storage/database.py) and FileManager (storage/file_manager.py)
\* ------------------------------------------------------------------------

\* the tables after _init_database.  sequence is the highest id the
\* materials table has given out (AUTOINCREMENT never gives an id twice);
\* foreign_keys is PRAGMA foreign_keys of the connections the methods open:
\* no method sets it, so it is the default of the SQLite library, which is
\* off unless the library was built with SQLITE_DEFAULT_FOREIGN_KEYS=1
EmptyDatabase ==
    [materials |-> <<>>, topics |-> <<>>, flashcards |-> <<>>,
     summaries |-> <<>>, sequence |-> 0, foreign_keys |-> FALSE]

\* the row save_material inserts
MaterialRow(id, name, size) ==
    [id |-> id, filename |-> name, file_type |-> get_file_extension(name),
     file_size |-> size]

\* cursor.lastrowid of the insert into materials
NextMaterialId(database) == database.sequence + 1

\* Database.save_material: the id is the rowid of the new row
save_material(database, name, size) ==
    [database EXCEPT
        !.materials = Append(@, MaterialRow(NextMaterialId(database),
                                            name, size)),
        !.sequence = NextMaterialId(database)]

\* the rows of a table that do not belong to the material
RowsOfOthers(rows, id) ==
    Filter(rows, [k \in 1..Len(rows) |-> rows[k].material_id # id])

\* Database.delete_material: DELETE FROM materials WHERE id = ?; ON DELETE
\* CASCADE acts on the other tables only on a connection with foreign_keys
\* on
delete_material(database, id) ==
    LET remaining == Filter(database.materials,
                            [k \in 1..Len(database.materials) |->
                                database.materials[k].id # id])
    IN  IF database.foreign_keys
        THEN [database EXCEPT
                 !.materials = remaining,
                 !.topics = RowsOfOthers(@, id),
                 !.flashcards = RowsOfOthers(@, id),
                 !.summaries = RowsOfOthers(@, id)]
        ELSE [database EXCEPT !.materials = remaining]

\* the rows save_topics inserts
TopicRows(id, ts) ==
    [k \in 1..Len(ts) |->
        [material_id |-> id, topic_name |-> ts[k], frequency |-> 1]]

\* Database.save_topics
save_topics(database, id, ts) ==
    [database EXCEPT !.topics = @ \o TopicRows(id, ts)]

\* card.get('type', 'general')
CardType(card) == IF "type" \in DOMAIN card THEN card.type ELSE "general"

\* the rows save_flashcards inserts
FlashcardRows(id, cards) ==
    [k \in 1..Len(cards) |->
        [material_id |-> id, question |-> cards[k].question,
         answer |-> cards[k].answer, topic |-> CardTopic(cards[k]),
         difficulty |-> CardDifficulty(cards[k]),
         card_type |-> CardType(cards[k])]]

\* Database.save_flashcards
save_flashcards(database, id, cards) ==
    [database EXCEPT !.flashcards = @ \o FlashcardRows(id, cards)]

\* the row save_summary inserts
SummaryRow(id, summary_data) ==
    [material_id |-> id, summary_text |-> summary_data.summary,
     key_points |-> Join(Chars("|||"), summary_data.key_points),
     compression_ratio |-> summary_data.compression_ratio]

\* Database.save_summary
save_summary(database, id, summary_data) ==
    [database EXCEPT !.summaries = Append(@, SummaryRow(id, summary_data))]

\* a file of a folder, and the folders
Path(folder, name) == [folder |-> folder, name |-> name]

\* open(filepath, 'w') and the write: the file holds the data, whatever it
\* held before
Write(stored, path, data) == (path :> data) @@ stored

\* file.save(str(filepath)) of upload_file
save_upload(stored, name, content) ==
    Write(stored, Path("uploads", name), content)

\* FileManager.save_flashcards_json, without the generated_at timestamp
save_flashcards_json(stored, cards, name) ==
    Write(stored, Path("flashcards", name \o Chars(".json")),
          [total_cards |-> Len(cards), flashcards |-> cards])

\* card.get(key, '')
Field(card, key) == IF key \in DOMAIN card THEN card[key] ELSE <<>>

\* the rows save_flashcards_csv writes after the header
CsvRows(cards) ==
    [k \in 1..Len(cards) |->
        [key \in {"id", "question", "answer", "topic", "difficulty", "type"}
            |-> Field(cards[k], key)]]

\* FileManager.save_flashcards_csv
save_flashcards_csv(stored, cards, name) ==
    Write(stored, Path("flashcards", name \o Chars(".csv")), CsvRows(cards))

\* FileManager.save_summary_json, without the generated_at timestamp
save_summary_json(stored, summary_data, name) ==
    Write(stored, Path("summaries", name \o Chars(".json")),
          [summary |-> summary_data.summary,
           key_points |-> summary_data.key_points,
           statistics |->
               [original_length |-> summary_data.original_length,
                summary_length |-> summary_data.summary_length,
                compression_ratio |-> summary_data.compression_ratio]])

\* FileManager.save_concept_map_json, without the generated_at timestamp
save_concept_map_json(stored, concept_map, name) ==
    Write(stored, Path("concept_maps", name \o Chars(".json")),
          [graph |-> concept_map])

\* FileManager.save_learning_path_json, without the generated_at timestamp
save_learning_path_json(stored, path, name) ==
    Write(stored, Path("learning_paths", name \o Chars(".json")),
          [learning_path |-> path])

\* the output files, those outside the uploads folder
OutputFiles(stored) == {p \in DOMAIN stored : p.folder # "uploads"}

\* ------------------------------------------------------------------------
\* upload_file and process_uploaded_file (api/routes.py)
\* ------------------------------------------------------------------------

NoResponse == [status |-> 0]

\* the responses of upload_file
BadRequest == [status |-> 400]

ServerError == [status |-> 500]

\* the success response with the stats process_uploaded_file returns
Success(id, name, stats) ==
    [status |-> 200, material_id |-> id, filename |-> name, stats |-> stats]

\* the dict process_uploaded_file returns
Stats(cards, ts, summary_data, graph) ==
    [flashcards |-> Len(cards), topics |-> Len(ts),
     summary_length |-> WordCount(summary_data.summary),
     concept_nodes |-> Len(graph.nodes)]

\* ------------------------------------------------------------------------
\* Inputs of the concept mapper
\* ------------------------------------------------------------------------

\* AI
TopicAI ==
    <<"A", "I">>

\* ML
TopicML ==
    <<"M", "L">>

\* data
TopicData ==
    <<"d", "a", "t", "a">>

\* Graph Theory
TopicGraph ==
    <<"G", "r", "a", "p", "h", " ", "T", "h", "e", "o", "r", "y">>

\* AI and ML are related fields. ML uses big data! Is AI new?
TextRelated ==
    <<"A", "I", " ", "a", "n", "d", " ", "M", "L", " ", "a", "r", "e", " ",
    "r", "e", "l", "a", "t", "e", "d", " ", "f", "i", "e", "l", "d", "s", ".",
    " ", "M", "L", " ", "u", "s", "e", "s", " ", "b", "i", "g", " ", "d", "a",
    "t", "a", "!", " ", "I", "s", " ", "A", "I", " ", "n", "e", "w", "?">>

\* Nothing relevant is written in this text.
TextUnrelated ==
    <<"N", "o", "t", "h", "i", "n", "g", " ", "r", "e", "l", "e", "v", "a",
    "n", "t", " ", "i", "s", " ", "w", "r", "i", "t", "t", "e", "n", " ", "i",
    "n", " ", "t", "h", "i", "s", " ", "t", "e", "x", "t", ".">>

TopicPool == {TopicAI, TopicML, TopicData, TopicGraph}

\* sixteen distinct topics "Ta" .. "Tp", for lists longer than every limit
LongTopics == [i \in 1..16 |-> <<"T", LowerLetters[i]>>]

\* a topic of 36 characters, longer than a label
TopicLongLabel == Chars("Convolutional Neural Network Layers!")

\* six sentences that each name AI and ML, one more than the highest
\* weight
TextRepeated ==
    Join(<<" ">>, [k \in 1..6 |-> Chars("AI and ML are related.")])

MaxTopicsLen == 2

\* every short list over the pool, the lists of up to sixteen distinct
\* topics, two lists with the long topic, and a list of three topics of
\* which TextRelated names two pairs in a sentence
GraphTopicLists ==
    UNION {[1..n -> TopicPool] : n \in 0..MaxTopicsLen}
        \cup {Take(LongTopics, n) : n \in 0..Len(LongTopics)}
        \cup {<<TopicLongLabel>>, <<TopicAI, TopicLongLabel>>,
              <<TopicAI, TopicML, TopicData>>}

GraphTexts == {<<>>, TextRelated, TextUnrelated, TextRepeated}

\* ------------------------------------------------------------------------
\* Inputs of the learning path generator
\* ------------------------------------------------------------------------

\* AI vs ML
TopicAIvsML ==
    <<"A", "I", " ", "v", "s", " ", "M", "L">>

\* Q?
QuestionQ ==
    <<"Q", "?">>

\* A.
AnswerA ==
    <<"A", ".">>

\* flashcards as generate returns them, one filed under a comparison topic,
\* and cards that lack the topic or the difficulty field
PathCardPool ==
    {[question |-> QuestionQ, answer |-> AnswerA, topic |-> TopicAI,
      type |-> "definition", id |-> 1, difficulty |-> "easy"],
     [question |-> QuestionQ, answer |-> AnswerA, topic |-> TopicAI,
      type |-> "features", id |-> 1, difficulty |-> "hard"],
     [question |-> QuestionQ, answer |-> AnswerA, topic |-> TopicML,
      type |-> "process", id |-> 1, difficulty |-> "medium"],
     [question |-> QuestionQ, answer |-> AnswerA, topic |-> TopicAIvsML,
      type |-> "comparison", id |-> 1, difficulty |-> "hard"],
     [question |-> QuestionQ, answer |-> AnswerA, type |-> "definition",
      difficulty |-> "easy"],
     [question |-> QuestionQ, answer |-> AnswerA, topic |-> TopicML,
      type |-> "definition"],
     [question |-> QuestionQ, answer |-> AnswerA, topic |-> TopicAI,
      type |-> "concept", id |-> 2]}

MaxPathCards == 2

PathCardLists == UNION {[1..n -> PathCardPool] : n \in 0..MaxPathCards}

\* ------------------------------------------------------------------------
\* Inputs of the flashcard generator
\* ------------------------------------------------------------------------

\* Ai
TopicAi ==
    <<"A", "i">>

\* AI is a field that studies smart machines and more.
SentenceDefinition ==
    <<"A", "I", " ", "i", "s", " ", "a", " ", "f", "i", "e", "l", "d", " ",
    "t", "h", "a", "t", " ", "s", "t", "u", "d", "i", "e", "s", " ", "s", "m",
    "a", "r", "t", " ", "m", "a", "c", "h", "i", "n", "e", "s", " ", "a", "n",
    "d", " ", "m", "o", "r", "e", ".">>

\* Unlike AI, ML is a method that learns from data.
SentenceComparison ==
    <<"U", "n", "l", "i", "k", "e", " ", "A", "I", ",", " ", "M", "L", " ",
    "i", "s", " ", "a", " ", "m", "e", "t", "h", "o", "d", " ", "t", "h", "a",
    "t", " ", "l", "e", "a", "r", "n", "s", " ", "f", "r", "o", "m", " ", "d",
    "a", "t", "a", ".">>

\* The key features of ML are speed and scale today.
SentenceFeatures ==
    <<"T", "h", "e", " ", "k", "e", "y", " ", "f", "e", "a", "t", "u", "r",
    "e", "s", " ", "o", "f", " ", "M", "L", " ", "a", "r", "e", " ", "s", "p",
    "e", "e", "d", " ", "a", "n", "d", " ", "s", "c", "a", "l", "e", " ", "t",
    "o", "d", "a", "y", ".">>

CardTopicPool == {TopicAI, TopicML}

MaxCardTopics == 2

\* every short list over the pool, and two lists with a topic in another
\* case
CardTopicLists ==
    UNION {[1..n -> CardTopicPool] : n \in 0..MaxCardTopics}
        \cup {<<TopicAI, TopicAi>>, <<TopicAi, TopicML>>}

CardTexts ==
    {<<>>,
     SentenceDefinition,
     Join(<<" ">>, <<SentenceDefinition, SentenceComparison>>),
     Join(<<" ">>, <<SentenceComparison, SentenceFeatures>>)}

\* the num_cards process_uploaded_file asks for
PipelineNumCards == 25

MaxNumCards == 1

NumCardsValues == (0..MaxNumCards) \cup {PipelineNumCards}

\* ------------------------------------------------------------------------
\* Inputs of the summary generator
\* ------------------------------------------------------------------------

\* Cats eat fish.
SentenceCats ==
    <<"C", "a", "t", "s", " ", "e", "a", "t", " ", "f", "i", "s", "h", ".">>

\* Key cats nap!
SentenceKey ==
    <<"K", "e", "y", " ", "c", "a", "t", "s", " ", "n", "a", "p", "!">>

\* Is it so?
SentenceShort ==
    <<"I", "s", " ", "i", "t", " ", "s", "o", "?">>

\* Main fish eat cats.
SentenceMain ==
    <<"M", "a", "i", "n", " ", "f", "i", "s", "h", " ", "e", "a", "t", " ",
    "c", "a", "t", "s", ".">>

\* Dogs eat a core fish.
SentenceDogs ==
    <<"D", "o", "g", "s", " ", "e", "a", "t", " ", "a", " ", "c", "o", "r",
    "e", " ", "f", "i", "s", "h", ".">>

\* No.
SentenceNo ==
    <<"N", "o", ".">>

SummarySentencePool ==
    {SentenceCats, SentenceKey, SentenceShort, SentenceMain}

MaxSummarySentences == 3

\* ten sentences, two of them repeated
TextTen ==
    Join(<<" ">>, <<SentenceCats, SentenceShort, SentenceDogs, SentenceKey,
                    SentenceNo, SentenceCats, SentenceMain, SentenceShort,
                    SentenceDogs, SentenceMain>>)

\* twelve sentences, six of them distinct
TextTwelve ==
    Join(<<" ">>, <<TextTen, SentenceKey, SentenceNo>>)

\* thirty-one sentences: the only ones with a keyword are the last three
TextThirtyOne ==
    Join(<<" ">>, [k \in 1..28 |-> SentenceShort]
                      \o <<SentenceKey, SentenceMain, SentenceDogs>>)

\* texts without a word (empty, whitespace only), every text of up to
\* MaxSummarySentences pool sentences, and the texts of ten, of twelve and
\* of thirty-one sentences
SummaryTexts ==
    {<<>>, <<" ", NL>>, TextTen, TextTwelve, TextThirtyOne}
        \cup {Join(<<" ">>, q) :
                 q \in UNION {[1..n -> SummarySentencePool] :
                                 n \in 1..MaxSummarySentences}}

\* the ratio process_uploaded_file asks for, in tenths
PipelineRatio == 3

Ratios == {0, PipelineRatio, RatioDen}

\* ------------------------------------------------------------------------
\* Inputs of the topic extractor
\* ------------------------------------------------------------------------

\* a header line, a bullet, prose that repeats a word, prose that names a
\* place twice, a definition, and a line of numbers
PieceHeader == Chars("Neural Networks")

PieceBullet == Chars("- Deep Learning")

PieceProse == Chars("Models learn. Models grow. Models are good.")

PiecePlace == Chars("Paris is big. Paris is old.")

PieceNumbers == Chars("2024 10 31 1999 2000 00 11 22")

TopicPiecePool ==
    {PieceHeader, PieceBullet, PieceProse, PiecePlace, PieceNumbers}

MaxTopicPieces == 2

\* sixteen header lines
TextSixteen ==
    Join(<<NL>>,
         <<Chars("Alpha"), Chars("Beta"), Chars("Gamma"), Chars("Delta"),
           Chars("Epsilon"), Chars("Zeta"), Chars("Theta"), Chars("Iota"),
           Chars("Kappa"), Chars("Lambda"), Chars("Omicron"), Chars("Sigma"),
           Chars("Upsilon"), Chars("Omega"), Chars("Digamma"),
           Chars("Sampi")>>)

\* three header lines, 49 characters
TextFortyNine ==
    Join(<<NL>>, <<PieceHeader, Chars("Deep Learning Models"),
                   Chars("Graph Theory")>>)

\* three header lines, 50 characters
TextFifty ==
    Join(<<NL>>, <<PieceHeader, Chars("Deep Learning Models"),
                   Chars("Graph Theorem")>>)

\* three header lines; the first two have two spaces after their first
\* word, so their topics, which have single spaces, are not found in the
\* text and score the same
TextTies ==
    Join(<<NL>>, <<Chars("Deep  Learning Models"),
                   Chars("Graph  Theory Basics"), PieceHeader>>)

\* every text of up to MaxTopicPieces lines from the pool, the text of
\* sixteen headers, the texts of 49 and of 50 characters, and the text with
\* topics of equal score
TopicTexts ==
    {TextSixteen, TextFortyNine, TextFifty, TextTies}
        \cup {Join(<<NL>>, q) :
                 q \in UNION {[1..n -> TopicPiecePool] :
                                 n \in 0..MaxTopicPieces}}

\* what pos_tag may do: tag no word as a noun, or tag Paris as one
NounChoices == {{}, {Chars("Paris")}}

\* ------------------------------------------------------------------------
\* Inputs of the upload pipeline
\* ------------------------------------------------------------------------

\* two lines of numbers, which give no topic
TextNumbers == Join(<<NL>>, <<PieceNumbers, PieceNumbers>>)

\* prose with two topics, a definition and related sentences
TextNetworks ==
    Chars("Neural Networks is a field that studies smart machines. Models are good. Models learn from data. Models grow fast.")

\* file contents: empty, whitespace only, a short sentence, and the two
\* texts of 50 characters or more
PipelineTexts ==
    {<<>>, <<" ", NL>>, SentenceCats, TextNumbers, TextNetworks}

\* what datetime.now().strftime('%Y%m%d_%H%M%S') returns during the upload
Timestamp == Chars("20240117_143052")

\* a request without a file part
NoFile ==
    [present |-> FALSE, filename |-> <<>>, content |-> <<>>, readable |-> TRUE]

\* a request with a file; readable tells whether python-docx can open it
FileUpload(name, content, readable) ==
    [present |-> TRUE, filename |-> name, content |-> content,
     readable |-> readable]

\* the requests: no file, no file name, a type that is not allowed, text
\* files of every content, a name with a space and an upper-case extension,
\* a name that is nothing but an extension, and documents
Uploads ==
    {NoFile,
     FileUpload(<<>>, SentenceCats, TRUE),
     FileUpload(Chars("virus.exe"), SentenceCats, TRUE),
     FileUpload(Chars("My Notes.TXT"), TextNetworks, TRUE),
     FileUpload(Chars(".txt"), TextNetworks, TRUE),
     FileUpload(Chars("essay.docx"), TextNetworks, TRUE),
     FileUpload(Chars("essay.docx"), <<>>, FALSE)}
        \cup {FileUpload(Chars("notes.txt"), content, TRUE) :
                 content \in PipelineTexts}

\* ------------------------------------------------------------------------
\* State
\* ------------------------------------------------------------------------

VARIABLES
    pc,             \* position of the operation under way
    text,           \* the document text
    nouns,          \* the words pos_tag tags as nouns
    topics,         \* the topic list
    num_cards,      \* the number of flashcards asked for
    picks,          \* the templates random.choice returned, in call order
    candidates,     \* generate's local list before duplicates are removed
    flashcards,     \* the flashcard list
    ratio,          \* the ratio asked of the summary, in tenths
    summary,        \* the summary returned by SummaryGenerator.generate
    raised,         \* the exception that ended the operation, or "none"
    concept_graph,  \* the graph returned by create_concept_graph
    learning_path,  \* the path returned by LearningPathGenerator.generate
    upload,         \* the request upload_file handles
    filename,       \* the name upload_file stores the file under
    material_id,    \* the id save_material returned
    db,             \* the rows of the tables of the database
    files,          \* the stored files and what they hold
    response,       \* the response of upload_file
    previous,       \* what the call before the last one returned
    runs,           \* the requests that upload_file handles side by side
    clock           \* the seconds that have passed on the server's clock

\* the variables of the generators
generator_vars ==
    <<text, nouns, topics, num_cards, picks, candidates, flashcards, ratio,
      summary, raised, concept_graph, learning_path>>

\* the variables of the upload
pipeline_vars == <<upload, filename, material_id, db, files, response>>

\* the variables of a repeated call
repeat_vars == <<previous>>

\* the variables of requests handled side by side
concurrent_vars == <<runs, clock>>

vars == <<pc, generator_vars, pipeline_vars, repeat_vars, concurrent_vars>>

\* no requests are handled side by side
NoRuns == runs = <<>> /\ clock = 0

\* the value of previous while an operation has been called at most once
NoCall == <<>>

\* no upload is under way
NoUpload ==
    /\ upload = NoFile
    /\ filename = <<>>
    /\ material_id = 0
    /\ db = EmptyDatabase
    /\ files = <<>>
    /\ response = NoResponse

\* ------------------------------------------------------------------------
\* The grading loop of generate applied to one card of every answer length
\* ------------------------------------------------------------------------

MaxAnswerWords == 31

\* the words an answer may hold besides its filler words: none, each complex
\* term, a term in another case, a term inside a longer word, and a word
\* that only begins like a term
AnswerTerms ==
    {<<>>} \cup {complex_terms[k] : k \in 1..Len(complex_terms)}
        \cup {<<"P", "A", "R", "A", "D", "I", "G", "M">>,
              <<"A", "l", "g", "o", "r", "i", "t", "h", "m", "s">>,
              <<"m", "e", "t", "h", "o", "d">>}

\* n filler words followed by the term, separated by single spaces
AnswerOf(n, term) ==
    Join(<<" ">>, [i \in 1..n |-> <<"i", "t">>]
                      \o (IF term = <<>> THEN <<>> ELSE <<term>>))

DifficultyAnswers ==
    {AnswerOf(n, term) : n \in 0..MaxAnswerWords, term \in AnswerTerms}

\* a card as the strategies build it, before id and difficulty are added
RawCard(answer) ==
    [question |-> <<"W", "h", "a", "t", "?">>,
     answer |-> answer,
     topic |-> TopicAI,
     type |-> "definition"]

InitDifficulty ==
    /\ pc = "start"
    /\ NoUpload
    /\ previous = NoCall
    /\ NoRuns
    /\ text = <<>>
    /\ topics = <<>>
    /\ num_cards = PipelineNumCards
    /\ picks = <<>>
    /\ candidates \in {<<RawCard(answer)>> : answer \in DifficultyAnswers}
    /\ nouns = {}
    /\ ratio = 0
    /\ summary = NoSummary
    /\ raised = "none"
    /\ flashcards = <<>>
    /\ concept_graph = EmptyGraph
    /\ learning_path = NoPath

\* the tail of generate on the candidate list: each card gets its id and
\* its difficulty
AssignDifficulty ==
    /\ pc = "start"
    /\ flashcards' = finish(candidates, num_cards)
    /\ pc' = "done"
    /\ UNCHANGED <<text, nouns, topics, num_cards, picks, candidates, ratio,
                   summary, raised, concept_graph, learning_path,
                   pipeline_vars, repeat_vars, concurrent_vars>>

NextDifficulty == AssignDifficulty

SpecDifficulty == InitDifficulty /\ [][NextDifficulty]_vars

\* the answer, lowercased, holds one of the five complex terms
HasComplexTerm(answer) ==
    \E k \in 1..Len(complex_terms) :
        \E i \in 1..Len(answer) :
            /\ i + Len(complex_terms[k]) - 1 <= Len(answer)
            /\ Lower(SubSeq(answer, i, i + Len(complex_terms[k]) - 1))
                   = complex_terms[k]

\* C21: a card is hard if its answer has at least 30 words or contains a
\* complex term, otherwise medium if the answer has at least 15 words,
\* otherwise easy; every returned card has one of these three values.
C21_DifficultyByAnswer ==
    pc = "done" =>
        \A i \in 1..Len(flashcards) :
            LET answer == flashcards[i].answer
                words == Len(Words(answer))
            IN  /\ flashcards[i].difficulty \in {"easy", "medium", "hard"}
                /\ flashcards[i].difficulty =
                       IF words >= 30 \/ HasComplexTerm(answer) THEN "hard"
                       ELSE IF words >= 15 THEN "medium"
                       ELSE "easy"

\* a card with a short answer that is graded hard for the term it holds
C21_Witness ==
    /\ pc = "done"
    /\ Len(flashcards) = 1
    /\ flashcards[1].difficulty = "hard"
    /\ Len(Words(flashcards[1].answer)) < 15
    /\ HasComplexTerm(flashcards[1].answer)

\* ------------------------------------------------------------------------
\* create_concept_graph applied to every input
\* ------------------------------------------------------------------------

InitGraph ==
    /\ pc = "start"
    /\ NoUpload
    /\ previous = NoCall
    /\ NoRuns
    /\ text \in GraphTexts
    /\ topics \in GraphTopicLists
    /\ concept_graph = EmptyGraph
    /\ flashcards = <<>>
    /\ num_cards = 0
    /\ picks = <<>>
    /\ candidates = <<>>
    /\ nouns = {}
    /\ ratio = 0
    /\ summary = NoSummary
    /\ raised = "none"
    /\ learning_path = NoPath

CreateConceptGraph ==
    /\ pc = "start"
    /\ concept_graph' = create_concept_graph(topics, text)
    /\ pc' = "done"
    /\ UNCHANGED <<text, nouns, topics, num_cards, picks, candidates,
                   flashcards, ratio, summary, raised, learning_path,
                   pipeline_vars, repeat_vars, concurrent_vars>>

NextGraph == CreateConceptGraph

SpecGraph == InitGraph /\ [][NextGraph]_vars

C24_TwelveNodes ==
    pc = "done" =>
        /\ Len(concept_graph.nodes) = Min(12, Len(topics))
        /\ \A i \in 0..(Len(concept_graph.nodes) - 1) :
               /\ concept_graph.nodes[i + 1].id = NodeId(i)
               /\ concept_graph.nodes[i + 1].type
                      = IF i < 4 THEN "main" ELSE "sub"
               /\ concept_graph.nodes[i + 1].label = Take(topics[i + 1], 30)

\* C24 amended: the graph has one node per topic of the first 15 topics,
\* min(15, len(topics)) nodes in index order with id node_<i>; node i is
\* main if i < 5 and sub otherwise, and its label is the topic truncated to
\* 30 characters.
C24_FifteenNodes ==
    pc = "done" =>
        /\ Len(concept_graph.nodes) = Min(15, Len(topics))
        /\ \A i \in 0..(Len(concept_graph.nodes) - 1) :
               /\ concept_graph.nodes[i + 1].id = NodeId(i)
               /\ concept_graph.nodes[i + 1].type
                      = IF i < 5 THEN "main" ELSE "sub"
               /\ concept_graph.nodes[i + 1].label = Take(topics[i + 1], 30)

\* sixteen topics have given fifteen nodes, the fifth of them main
C24_Witness ==
    /\ pc = "done"
    /\ Len(topics) = 16
    /\ Len(concept_graph.nodes) = 15
    /\ concept_graph.nodes[5].type = "main"
    /\ concept_graph.nodes[6].type = "sub"

\* the edges of the graph from node_0 to node_j
EdgesToNode(j) ==
    {k \in 1..Len(concept_graph.edges) :
        /\ concept_graph.edges[k].source = NodeId(0)
        /\ concept_graph.edges[k].target = NodeId(j)}

\* C25 as stated: for every non-empty working set of n topics, the edges
\* contain a hub edge from node_0 to each of node_1..node_min(5, n-1), each
\* with weight 3 and type hub.
C25_HubEdges ==
    (pc = "done" /\ Len(topics) >= 1) =>
        \A j \in 1..Min(5, Min(12, Len(topics)) - 1) :
            \E k \in EdgesToNode(j) :
                /\ concept_graph.edges[k].weight = 3
                /\ concept_graph.edges[k].type = "hub"

\* C25 amended: for every non-empty topics list the graph has no hub edge,
\* every edge has type related.  When two of the first 10 topics occur
\* together in a sentence, node_0 has an edge to node_j exactly for the j < 10
\* whose topic occurs together with topic 0, with weight min(count, 5); when
\* no two of them do, node_0 has the one fallback edge to node_1, weight 1,
\* if there are at least 2 topics.
C25_EdgesFromFirstNode ==
    (pc = "done" /\ Len(topics) >= 1) =>
        LET sentences == EdgeSentences(text)
            first == Take(topics, 10)
            co(i, j) == CoOccurrence(first[i + 1], first[j + 1], sentences)
            together == \E i, j \in 0..(Len(first) - 1) :
                            i < j /\ co(i, j) > 0
        IN  /\ \A k \in 1..Len(concept_graph.edges) :
                   concept_graph.edges[k].type = "related"
            /\ \A j \in 1..(Len(topics) - 1) :
                   IF together
                   THEN IF j < 10 /\ co(0, j) > 0
                        THEN \E k \in EdgesToNode(j) :
                                 concept_graph.edges[k].weight
                                     = Min(co(0, j), 5)
                        ELSE EdgesToNode(j) = {}
                   ELSE IF j = 1
                        THEN \E k \in EdgesToNode(j) :
                                 concept_graph.edges[k].weight = 1
                        ELSE EdgesToNode(j) = {}

\* node_0 has an edge to node_1 for the six sentences that name both
\* topics: a related edge of weight 5
C25_Witness ==
    /\ pc = "done"
    /\ Len(topics) = 2
    /\ text = TextRepeated
    /\ \E k \in EdgesToNode(1) :
           /\ concept_graph.edges[k].weight = 5
           /\ concept_graph.edges[k].type = "related"

\* some two topics of the list occur together in a sentence of the text
SomePairTogether ==
    LET sentences == EdgeSentences(text)
    IN  \E i, j \in 1..Len(topics) :
            i < j /\ CoOccurrence(topics[i], topics[j], sentences) > 0

\* C26: for every topics list with at least 2 topics and every text the
\* graph has at least one edge: when no pair of topics occurs together in a
\* sentence, the edges are the fallback edges node_i -> node_(i+1) over the
\* first topics; and metadata.total_nodes and metadata.total_edges are the
\* lengths of the returned nodes and edges.
C26_NeverWithoutEdges ==
    pc = "done" =>
        /\ concept_graph.metadata.total_nodes = Len(concept_graph.nodes)
        /\ concept_graph.metadata.total_edges = Len(concept_graph.edges)
        /\ Len(topics) >= 2 =>
               /\ Len(concept_graph.edges) >= 1
               /\ ~SomePairTogether =>
                      /\ Len(concept_graph.edges) >= 1
                      /\ Len(concept_graph.edges) <= Len(topics) - 1
                      /\ \A k \in 1..Len(concept_graph.edges) :
                             /\ concept_graph.edges[k].source = NodeId(k - 1)
                             /\ concept_graph.edges[k].target = NodeId(k)

\* five topics that the text does not name have given the fallback edges
\* from node_0, node_1 and node_2
C26_Witness ==
    /\ pc = "done"
    /\ Len(topics) = 5
    /\ text = TextUnrelated
    /\ ~SomePairTogether
    /\ Len(concept_graph.edges) = 3
    /\ concept_graph.edges[3].source = NodeId(2)
    /\ concept_graph.edges[3].target = NodeId(3)
    /\ concept_graph.metadata.total_edges = 3

\* the ids of the nodes of the graph
NodeIds == {concept_graph.nodes[i].id : i \in 1..Len(concept_graph.nodes)}

\* C29: in every graph create_concept_graph returns, the source and the
\* target of each edge are ids of nodes of the graph and differ, no ordered
\* pair of nodes has two edges, and every weight is an integer from 1 to 5.
C29_WellFormedEdges ==
    pc = "done" =>
        /\ \A k \in 1..Len(concept_graph.edges) :
               /\ concept_graph.edges[k].source \in NodeIds
               /\ concept_graph.edges[k].target \in NodeIds
               /\ concept_graph.edges[k].source # concept_graph.edges[k].target
               /\ concept_graph.edges[k].weight \in 1..5
        /\ \A k, m \in 1..Len(concept_graph.edges) :
               (/\ concept_graph.edges[k].source = concept_graph.edges[m].source
                /\ concept_graph.edges[k].target = concept_graph.edges[m].target)
                   => k = m

\* three topics of which the text names two pairs in a sentence: two edges
\* between three nodes
C29_Witness ==
    /\ pc = "done"
    /\ Len(concept_graph.nodes) = 3
    /\ Len(concept_graph.edges) = 2
    /\ concept_graph.edges[1].source = NodeId(0)
    /\ concept_graph.edges[2].source = NodeId(1)
    /\ concept_graph.edges[2].target = NodeId(2)

\* ------------------------------------------------------------------------
\* FlashcardGenerator.generate applied to every input
\* ------------------------------------------------------------------------

InitCards ==
    /\ pc = "start"
    /\ NoUpload
    /\ previous = NoCall
    /\ NoRuns
    /\ text \in CardTexts
    /\ topics \in CardTopicLists
    /\ num_cards \in NumCardsValues
    /\ picks = <<>>
    /\ candidates = <<>>
    /\ nouns = {}
    /\ ratio = 0
    /\ summary = NoSummary
    /\ raised = "none"
    /\ flashcards = <<>>
    /\ concept_graph = EmptyGraph
    /\ learning_path = NoPath

\* one call of generate: random.choice returns any template each time
GenerateCards ==
    /\ pc = "start"
    /\ \E chosen \in [1..Len(ConceptTopics(topics, sent_tokenize(text)))
                          -> 1..NumTemplates] :
           /\ picks' = chosen
           /\ candidates' = RawCards(text, topics, chosen)
    /\ flashcards' = finish(candidates', num_cards)
    /\ pc' = "done"
    /\ UNCHANGED <<text, nouns, topics, num_cards, ratio, summary, raised,
                   concept_graph, learning_path, pipeline_vars, repeat_vars,
                   concurrent_vars>>

NextCards == GenerateCards

SpecCards == InitCards /\ [][NextCards]_vars

\* C5: generate(text, topics, num_cards = N) returns at most N flashcards.
C5_AtMostNumCards == pc = "done" => Len(flashcards) <= num_cards

C5_Witness ==
    /\ pc = "done"
    /\ num_cards > 0
    /\ Len(_remove_duplicates(candidates)) > num_cards
    /\ Len(flashcards) = num_cards

\* C6: in the list generate returns, the id of the i-th card is i: the ids
\* are exactly 1..len(result) in list order, also when duplicates were
\* removed from the middle of the candidates before that.
C6_DenseIds ==
    pc = "done" => \A i \in 1..Len(flashcards) : flashcards[i].id = i

\* the second candidate was removed as a duplicate and later ones were kept
C6_Witness ==
    /\ pc = "done"
    /\ Len(flashcards) >= 3
    /\ flashcards[3].id = 3
    /\ LET raw == candidates
       IN  /\ Len(raw) > Len(flashcards)
           /\ question_normalized(raw[2]) = question_normalized(raw[1])

\* C7: in the list generate returns, no two cards have questions that are
\* equal after lower-casing and trimming, and each returned card is the
\* earliest candidate, in generation order, with its normalized question.
C7_FirstOccurrenceWins ==
    pc = "done" =>
        LET raw == candidates
            rawq == [k \in 1..Len(raw) |-> question_normalized(raw[k])]
            outq == [i \in 1..Len(flashcards) |->
                        question_normalized(flashcards[i])]
        IN  /\ \A i, j \in 1..Len(flashcards) : i # j => outq[i] # outq[j]
            /\ \A i \in 1..Len(flashcards) :
                   LET same == {k \in 1..Len(raw) : rawq[k] = outq[i]}
                       first == CHOOSE k \in same : \A m \in same : k <= m
                   IN  /\ same # {}
                       /\ flashcards[i].question = raw[first].question
                       /\ flashcards[i].answer = raw[first].answer
                       /\ flashcards[i].topic = raw[first].topic
                       /\ flashcards[i].type = raw[first].type

\* two candidates differ in question, answer and topic but share a
\* normalized question, and the earlier one is the one returned
C7_Witness ==
    /\ pc = "done"
    /\ LET raw == candidates
       IN  \E i \in 1..Len(flashcards) :
           \E k, m \in 1..Len(raw) :
               /\ k < m
               /\ question_normalized(raw[k]) = question_normalized(raw[m])
               /\ raw[k].question # raw[m].question
               /\ raw[k].answer # raw[m].answer
               /\ raw[k].topic # raw[m].topic
               /\ flashcards[i].question = raw[k].question
               /\ flashcards[i].answer = raw[k].answer

\* the strings of the topics list
TopicStrings == {topics[i] : i \in 1..Len(topics)}

\* C8: every flashcard generate returns has a topic that is one of the
\* strings of the input topics list, or "General".
C8_TopicIsJoinKey ==
    pc = "done" =>
        \A i \in 1..Len(flashcards) :
            flashcards[i].topic \in TopicStrings \cup {General}

C8_ComparisonCard ==
    /\ pc = "done"
    /\ \E i \in 1..Len(flashcards) :
           /\ flashcards[i].type = "comparison"
           /\ flashcards[i].topic = TopicAI \o Vs \o TopicML

\* ------------------------------------------------------------------------
\* TextProcessor.extract_topics applied to every input
\* ------------------------------------------------------------------------

InitTopics ==
    /\ pc = "start"
    /\ NoUpload
    /\ previous = NoCall
    /\ NoRuns
    /\ text \in TopicTexts
    /\ nouns \in NounChoices
    /\ topics = <<>>
    /\ num_cards = 0
    /\ picks = <<>>
    /\ candidates = <<>>
    /\ flashcards = <<>>
    /\ ratio = 0
    /\ summary = NoSummary
    /\ raised = "none"
    /\ concept_graph = EmptyGraph
    /\ learning_path = NoPath

ExtractTopics ==
    /\ pc = "start"
    /\ topics' = extract_topics_on(0, text, nouns)
    /\ pc' = "done"
    /\ UNCHANGED <<text, nouns, num_cards, picks, candidates, flashcards,
                   ratio, summary, raised, concept_graph, learning_path,
                   pipeline_vars, repeat_vars, concurrent_vars>>

\* a second call on the same text, on the instance that served the first
\* call (served = 1) or on a new instance (served = 0)
ExtractAgain ==
    /\ pc = "done"
    /\ \E served \in {0, 1} :
           topics' = extract_topics_on(served, text, nouns)
    /\ previous' = topics
    /\ pc' = "again"
    /\ UNCHANGED <<text, nouns, num_cards, picks, candidates, flashcards,
                   ratio, summary, raised, concept_graph, learning_path,
                   pipeline_vars, concurrent_vars>>

NextTopics ==
    \/ ExtractTopics
    \/ ExtractAgain

SpecTopics == InitTopics /\ [][NextTopics]_vars

C2_NoTopics ==
    /\ pc = "done"
    /\ Len(text) >= ShortText
    /\ topics = <<>>

\* C15: for every text shorter than 50 characters, the empty text included,
\* extract_topics returns exactly the one placeholder topic, whatever the
\* five strategies would find in the text, and raises no error.
C15_ShortTextPlaceholder ==
    (pc = "done" /\ Len(text) < ShortText) =>
        /\ topics = <<GeneralTopic>>
        /\ raised = "none"

\* extract_topics has returned the placeholder for a text of 49 characters
\* in which the strategies find candidates
C15_Witness ==
    /\ pc = "done"
    /\ Len(text) = ShortText - 1
    /\ CandidateTopics(text, nouns) # <<>>
    /\ topics = <<GeneralTopic>>

\* a letter is a capital exactly when no letter stands before it
IsTitleCased(s) ==
    \A i \in 1..Len(s) :
        IsAlpha(s[i]) =>
            (IsUpper(s[i]) <=> (i = 1 \/ ~IsAlpha(s[i - 1])))

\* the only whitespace is single spaces between other characters
IsCollapsed(s) ==
    \A i \in 1..Len(s) :
        IsSpace(s[i]) =>
            /\ s[i] = " "
            /\ i > 1
            /\ i < Len(s)
            /\ ~IsSpace(s[i + 1])

\* C16: every topic extract_topics returns is title-cased, has its
\* whitespace collapsed to single spaces and is 3 to 60 characters long, and
\* no two returned topics are equal when compared without case.
C16_NormalizedUnique ==
    pc = "done" =>
        /\ \A i \in 1..Len(topics) :
               /\ IsTitleCased(topics[i])
               /\ IsCollapsed(topics[i])
               /\ Len(topics[i]) >= TopicMinLen
               /\ Len(topics[i]) <= TopicMaxLen
        /\ \A i, j \in 1..Len(topics) :
               i # j => Lower(topics[i]) # Lower(topics[j])

\* extract_topics has returned topics for a text in which the strategies
\* found the same topic twice and a candidate that is not title-cased
C16_Witness ==
    /\ pc = "done"
    /\ Len(topics) >= 2
    /\ LET found == MeaningfulOnly(CandidateTopics(text, nouns))
       IN  /\ \E k, m \in 1..Len(found) :
                  k # m /\ Lower(found[k]) = Lower(found[m])
           /\ \E k \in 1..Len(found) : ~IsTitleCased(found[k])

\* the place of a returned topic in the deduplicated candidate list
SeenAt(cleaned, topic) == CHOOSE k \in 1..Len(cleaned) : cleaned[k] = topic

\* the topic at place k of the candidate list is ranked before the one at
\* place m: its score is higher, or equal and it was seen first
RankedBefore(score, k, m) ==
    \/ ScoreAbove(score[k], score[m])
    \/ ~ScoreAbove(score[m], score[k]) /\ k < m

\* the returned list is the first TopicLimit of the candidates in ranking
\* order
IsRanking(cleaned, score, returned) ==
    /\ Len(returned) = Min(Len(cleaned), TopicLimit)
    /\ \A i \in 1..Len(returned) : \E k \in 1..Len(cleaned) :
           cleaned[k] = returned[i]
    /\ \A i \in 1..(Len(returned) - 1) :
           RankedBefore(score, SeenAt(cleaned, returned[i]),
                        SeenAt(cleaned, returned[i + 1]))
    /\ \A k \in 1..Len(cleaned) :
           \/ \E i \in 1..Len(returned) : returned[i] = cleaned[k]
           \/ RankedBefore(score, SeenAt(cleaned, returned[Len(returned)]), k)

\* C23: the list extract_topics returns is ordered by descending importance
\* score, topics of equal score keep their first-seen order from the
\* deduplicated candidate list, and the result is the first 15 of that order:
\* the ranking step drops no candidate.
C23_RankedByScore ==
    (pc = "done" /\ Len(text) >= ShortText) =>
        LET cleaned == _clean_and_filter_topics(CandidateTopics(text, nouns))
        IN  IsRanking(cleaned,
                      [k \in 1..Len(cleaned) |->
                          total_score(cleaned[k], Lower(text))],
                      topics)

\* the sort has moved a topic in front of one seen earlier, and has left two
\* topics of equal score in the order they were seen
HasMoveAndTie(cleaned, score, returned) ==
    /\ \E i \in 1..(Len(returned) - 1) :
           SeenAt(cleaned, returned[i]) > SeenAt(cleaned, returned[i + 1])
    /\ \E i \in 1..(Len(returned) - 1) :
           /\ ~ScoreAbove(score[SeenAt(cleaned, returned[i])],
                          score[SeenAt(cleaned, returned[i + 1])])
           /\ SeenAt(cleaned, returned[i]) < SeenAt(cleaned, returned[i + 1])

C23_Witness ==
    /\ pc = "done"
    /\ Len(text) >= ShortText
    /\ LET cleaned == _clean_and_filter_topics(CandidateTopics(text, nouns))
       IN  HasMoveAndTie(cleaned,
                         [k \in 1..Len(cleaned) |->
                             total_score(cleaned[k], Lower(text))],
                         topics)

InitSummary ==
    /\ pc = "start"
    /\ NoUpload
    /\ previous = NoCall
    /\ NoRuns
    /\ text \in SummaryTexts
    /\ ratio \in Ratios
    /\ summary = NoSummary
    /\ raised = "none"
    /\ topics = <<>>
    /\ num_cards = 0
    /\ picks = <<>>
    /\ candidates = <<>>
    /\ nouns = {}
    /\ flashcards = <<>>
    /\ concept_graph = EmptyGraph
    /\ learning_path = NoPath

\* one call of generate: it returns the summary or ends with an exception
GenerateSummary ==
    /\ pc = "start"
    /\ raised' = generate_summary_raises(text)
    /\ summary' = IF raised' = "none"
                  THEN generate_summary(text, ratio)
                  ELSE NoSummary
    /\ pc' = "done"
    /\ UNCHANGED <<text, nouns, topics, num_cards, picks, candidates,
                   flashcards, ratio, concept_graph, learning_path,
                   pipeline_vars, repeat_vars, concurrent_vars>>

NextSummary == GenerateSummary

SpecSummary == InitSummary /\ [][NextSummary]_vars

\* C4: generate on a text with zero words (empty or whitespace only) ends
\* with the dedicated EmptyInputError, never with a division-by-zero error.
C4_EmptyInputError ==
    (pc = "done" /\ WordCount(text) = 0) => raised = "EmptyInputError"

\* generate was called on a text without a word and the division failed
C4_ZeroWords ==
    /\ pc = "done"
    /\ WordCount(text) = 0
    /\ raised = "ZeroDivisionError"

\* Python's round(num / den) for num >= 0, den > 0: to the nearest integer,
\* a half to the even one
Round(num, den) ==
    LET q == num \div den
        r == num % den
    IN  IF 2 * r > den \/ (2 * r = den /\ q % 2 = 1) THEN q + 1 ELSE q

\* max(3, round(len(sentences) * ratio)) for a ratio of tenths
RoundedSentences(sentences, tenths) ==
    Max(MinSummarySentences, Round(Len(sentences) * tenths, RatioDen))

\* C11: generate selects the max(3, round(num_sentences * ratio))
\* highest-scoring sentences for the summary, all of them when the text has
\* fewer; ratio 0.3 on a text of ten sentences gives exactly 3 sentences.
C11_RoundedSelection ==
    (pc = "done" /\ raised = "none") =>
        LET sentences == sent_tokenize(text)
        IN  /\ summary.summary =
                   Join(<<" ">>,
                        summary_sentences(_score_sentences(sentences, text),
                            RoundedSentences(sentences, ratio)))
            /\ (Len(sentences) = 10 /\ ratio = PipelineRatio) =>
                   Len(sent_tokenize(summary.summary)) = 3

\* generate has returned three sentences for a text of twelve sentences and
\* the ratio 0.3, where 12 * 0.3 = 3.6 rounds to 4
C11_Truncated ==
    /\ pc = "done"
    /\ raised = "none"
    /\ Len(sent_tokenize(text)) = 12
    /\ ratio = PipelineRatio
    /\ RoundedSentences(sent_tokenize(text), ratio) = 4
    /\ Len(sent_tokenize(summary.summary)) = 3

\* kept can be read off source from left to right: some strictly increasing
\* choice of positions of source spells kept
IsSubsequence(kept, source) ==
    \E f \in [1..Len(kept) -> 1..Len(source)] :
        /\ \A k \in 1..Len(kept) : source[f[k]] = kept[k]
        /\ \A k \in 1..(Len(kept) - 1) : f[k] < f[k + 1]

\* the score _score_sentences gives to a sentence of the text
ScoreOf(scores, sentence) ==
    scores[CHOOSE k \in 1..Len(scores) : scores[k].sentence = sentence]

\* C12: the sentences of the summary appear in the same relative order as in
\* the source text, whatever their scores, also when the text repeats a
\* sentence or has sentences of equal score.
C12_SourceOrder ==
    (pc = "done" /\ raised = "none") =>
        IsSubsequence(sent_tokenize(summary.summary), sent_tokenize(text))

\* generate has returned a summary of a text with a repeated sentence in
\* which a sentence is followed by one of higher score and by one of equal
\* score
C12_Witness ==
    /\ pc = "done"
    /\ raised = "none"
    /\ LET sentences == sent_tokenize(text)
           scores == _score_sentences(sentences, text)
           kept == sent_tokenize(summary.summary)
       IN  /\ Len(scores) < Len(sentences)
           /\ \E i, j \in 1..Len(kept) :
                  /\ i < j
                  /\ ScoreAbove(ScoreOf(scores, kept[j]),
                                ScoreOf(scores, kept[i]))
           /\ \E i, j \in 1..Len(kept) :
                  /\ i < j
                  /\ ~ScoreAbove(ScoreOf(scores, kept[j]),
                                 ScoreOf(scores, kept[i]))
                  /\ ~ScoreAbove(ScoreOf(scores, kept[i]),
                                 ScoreOf(scores, kept[j]))

\* the places among the first 30 sentences whose sentence contains an
\* importance keyword, in any case
KeywordPlaces(sentences) ==
    {k \in 1..Min(Len(sentences), 30) :
        \E w \in 1..Len(important_keywords) :
            Contains(important_keywords[w], Lower(sentences[k]))}

\* C27: key_points holds at most 5 sentences: the sentences among the first
\* 30 that contain an importance keyword, in the order they are met, up to
\* 5; if fewer than 3 are found, key_points is the first 5 sentences of the
\* text instead; so key_points is not empty when the text has a sentence.
C27_KeyPoints ==
    (pc = "done" /\ raised = "none") =>
        LET sentences == sent_tokenize(text)
            places == SortedSeq(KeywordPlaces(sentences))
        IN  /\ Len(summary.key_points) <= 5
            /\ Len(sentences) >= 1 => Len(summary.key_points) >= 1
            /\ IF Len(places) >= 3
               THEN /\ Len(summary.key_points) = Min(Len(places), 5)
                    /\ \A k \in 1..Len(summary.key_points) :
                           summary.key_points[k] = sentences[places[k]]
               ELSE /\ Len(summary.key_points) = Min(Len(sentences), 5)
                    /\ \A k \in 1..Len(summary.key_points) :
                           summary.key_points[k] = sentences[k]

\* a text whose keywords stand in the sentences 29, 30 and 31: two are found
\* among the first 30, and key_points is the first five sentences
C27_Witness ==
    /\ pc = "done"
    /\ raised = "none"
    /\ Len(sent_tokenize(text)) > 30
    /\ Cardinality(KeywordPlaces(sent_tokenize(text))) = 2
    /\ summary.key_points = [k \in 1..5 |-> SentenceShort]

\* ------------------------------------------------------------------------
\* Each generator called twice with the same arguments
\* ------------------------------------------------------------------------

\* the flashcard lists given to the learning path generator
RepeatCardLists == {q \in PathCardLists : Len(q) <= 1}

InitRepeat ==
    /\ pc = "start"
    /\ NoUpload
    /\ previous = NoCall
    /\ NoRuns
    /\ text \in CardTexts
    /\ topics \in CardTopicLists
    /\ flashcards \in RepeatCardLists
    /\ num_cards = PipelineNumCards
    /\ ratio = PipelineRatio
    /\ picks = <<>>
    /\ candidates = <<>>
    /\ nouns = {}
    /\ summary = NoSummary
    /\ raised = "none"
    /\ concept_graph = EmptyGraph
    /\ learning_path = NoPath

\* FlashcardGenerator.generate(text, topics, num_cards)
FirstCards ==
    /\ pc = "start"
    /\ \E chosen \in [1..Len(ConceptTopics(topics, sent_tokenize(text)))
                          -> 1..NumTemplates] :
           /\ picks' = chosen
           /\ candidates' = RawCards(text, topics, chosen)
    /\ flashcards' = finish(candidates', num_cards)
    /\ pc' = "cards"
    /\ UNCHANGED <<text, nouns, topics, num_cards, ratio, summary, raised,
                   concept_graph, learning_path, pipeline_vars, repeat_vars,
                   concurrent_vars>>

\* the same call again: random.choice returns any template once more
AgainCards ==
    /\ pc = "cards"
    /\ \E chosen \in [1..Len(ConceptTopics(topics, sent_tokenize(text)))
                          -> 1..NumTemplates] :
           /\ picks' = chosen
           /\ candidates' = RawCards(text, topics, chosen)
    /\ flashcards' = finish(candidates', num_cards)
    /\ previous' = flashcards
    /\ pc' = "cards_again"
    /\ UNCHANGED <<text, nouns, topics, num_cards, ratio, summary, raised,
                   concept_graph, learning_path, pipeline_vars,
                   concurrent_vars>>

\* SummaryGenerator.generate(text, ratio)
FirstSummary ==
    /\ pc = "start"
    /\ raised' = generate_summary_raises(text)
    /\ summary' = IF raised' = "none"
                  THEN generate_summary(text, ratio)
                  ELSE NoSummary
    /\ pc' = "summary"
    /\ UNCHANGED <<text, nouns, topics, num_cards, picks, candidates,
                   flashcards, ratio, concept_graph, learning_path,
                   pipeline_vars, repeat_vars, concurrent_vars>>

AgainSummary ==
    /\ pc = "summary"
    /\ raised' = generate_summary_raises(text)
    /\ summary' = IF raised' = "none"
                  THEN generate_summary(text, ratio)
                  ELSE NoSummary
    /\ previous' = [summary |-> summary, raised |-> raised]
    /\ pc' = "summary_again"
    /\ UNCHANGED <<text, nouns, topics, num_cards, picks, candidates,
                   flashcards, ratio, concept_graph, learning_path,
                   pipeline_vars, concurrent_vars>>

\* ConceptMapper.create_concept_graph(topics, text)
FirstGraph ==
    /\ pc = "start"
    /\ concept_graph' = create_concept_graph(topics, text)
    /\ pc' = "graph"
    /\ UNCHANGED <<text, nouns, topics, num_cards, picks, candidates,
                   flashcards, ratio, summary, raised, learning_path,
                   pipeline_vars, repeat_vars, concurrent_vars>>

AgainGraph ==
    /\ pc = "graph"
    /\ concept_graph' = create_concept_graph(topics, text)
    /\ previous' = concept_graph
    /\ pc' = "graph_again"
    /\ UNCHANGED <<text, nouns, topics, num_cards, picks, candidates,
                   flashcards, ratio, summary, raised, learning_path,
                   pipeline_vars, concurrent_vars>>

\* LearningPathGenerator.generate(topics, flashcards)
FirstPath ==
    /\ pc = "start"
    /\ learning_path' = generate_path(topics, flashcards)
    /\ pc' = "path"
    /\ UNCHANGED <<text, nouns, topics, num_cards, picks, candidates,
                   flashcards, ratio, summary, raised, concept_graph,
                   pipeline_vars, repeat_vars, concurrent_vars>>

AgainPath ==
    /\ pc = "path"
    /\ learning_path' = generate_path(topics, flashcards)
    /\ previous' = learning_path
    /\ pc' = "path_again"
    /\ UNCHANGED <<text, nouns, topics, num_cards, picks, candidates,
                   flashcards, ratio, summary, raised, concept_graph,
                   pipeline_vars, concurrent_vars>>

NextRepeat ==
    \/ FirstCards
    \/ AgainCards
    \/ FirstSummary
    \/ AgainSummary
    \/ FirstGraph
    \/ AgainGraph
    \/ FirstPath
    \/ AgainPath

SpecRepeat == InitRepeat /\ [][NextRepeat]_vars

\* C14: the flashcard generator, the summary generator, the concept mapper
\* and the learning path generator are pure functions of their inputs: a
\* second call with the same inputs returns what the first call returned.
C14_SameOutputAgain ==
    /\ pc = "cards_again" => flashcards = previous
    /\ pc = "summary_again" =>
           /\ summary = previous.summary
           /\ raised = previous.raised
    /\ pc = "graph_again" => concept_graph = previous
    /\ pc = "path_again" => learning_path = previous

\* the two calls of the flashcard generator returned lists of different
\* lengths
C14_DifferentCards ==
    /\ pc = "cards_again"
    /\ Len(flashcards) # Len(previous)

\* ------------------------------------------------------------------------
\* LearningPathGenerator.generate applied to every input
\* ------------------------------------------------------------------------

InitPath ==
    /\ pc = "start"
    /\ NoUpload
    /\ previous = NoCall
    /\ NoRuns
    /\ topics \in GraphTopicLists
    /\ flashcards \in PathCardLists
    /\ learning_path = NoPath
    /\ text = <<>>
    /\ num_cards = 0
    /\ picks = <<>>
    /\ candidates = <<>>
    /\ nouns = {}
    /\ ratio = 0
    /\ summary = NoSummary
    /\ raised = "none"
    /\ concept_graph = EmptyGraph

GeneratePath ==
    /\ pc = "start"
    /\ learning_path' = generate_path(topics, flashcards)
    /\ pc' = "done"
    /\ UNCHANGED <<text, nouns, topics, num_cards, picks, candidates,
                   flashcards, ratio, summary, raised, concept_graph,
                   pipeline_vars, repeat_vars, concurrent_vars>>

NextPath == GeneratePath

SpecPath == InitPath /\ [][NextPath]_vars

\* C9: in every learning path returned by generate, the prerequisites of
\* step i are exactly the topics of steps 1..i-1, in step order (none for
\* step 1).
C9_PrerequisiteChain ==
    pc = "done" =>
        \A i \in 1..Len(learning_path.steps) :
            /\ Len(learning_path.steps[i].prerequisites) = i - 1
            /\ \A j \in 1..(i - 1) :
                   learning_path.steps[i].prerequisites[j]
                       = learning_path.steps[j].topic

C9_Witness ==
    /\ pc = "done"
    /\ Len(learning_path.steps) = StepLimit
    /\ Len(learning_path.steps[StepLimit].prerequisites) = StepLimit - 1
    /\ learning_path.steps[1].prerequisites = <<>>

\* C10: in every learning path returned by generate, step 1 has status
\* available, every later step has status locked, and no other status
\* occurs.
C10_FirstAvailableRestLocked ==
    pc = "done" =>
        \A i \in 1..Len(learning_path.steps) :
            learning_path.steps[i].status
                = (IF i = 1 THEN "available" ELSE "locked")

C10_Witness ==
    /\ pc = "done"
    /\ Len(learning_path.steps) >= 3
    /\ learning_path.steps[1].status = "available"
    /\ learning_path.steps[3].status = "locked"

\* C18: generate builds one step per topic for the first 10 topics, in the
\* order of the topics: the path has min(10, len(topics)) steps, step i has
\* step_number i and the topic topics[i-1], and total_steps is the number of
\* steps.
C18_OneStepPerTopic ==
    pc = "done" =>
        /\ Len(learning_path.steps) = Min(10, Len(topics))
        /\ learning_path.total_steps = Len(learning_path.steps)
        /\ \A i \in 1..Len(learning_path.steps) :
               /\ learning_path.steps[i].step_number = i
               /\ learning_path.steps[i].topic = topics[i]

\* generate has returned ten steps for more than ten topics
C18_Witness ==
    /\ pc = "done"
    /\ Len(topics) > 10
    /\ learning_path.total_steps = 10
    /\ learning_path.steps[10].topic = topics[10]

\* the multiplier of a difficulty
Multiplier(difficulty) ==
    CASE difficulty = "easy" -> 1
      [] difficulty = "medium" -> 2
      [] difficulty = "hard" -> 3

\* C19: every step has estimated_time = (15 + 2 * num_flashcards) *
\* multiplier with the multiplier 1 for easy, 2 for medium and 3 for hard; a
\* topic without flashcards is medium and has the time 30; total_time is the
\* sum of the times of the steps.
C19_EstimatedTime ==
    pc = "done" =>
        /\ \A i \in 1..Len(learning_path.steps) :
               LET step == learning_path.steps[i]
               IN  /\ step.difficulty \in {"easy", "medium", "hard"}
                   /\ step.estimated_time
                          = (15 + 2 * step.num_flashcards)
                                * Multiplier(step.difficulty)
                   /\ step.num_flashcards = 0 =>
                          /\ step.difficulty = "medium"
                          /\ step.estimated_time = 30
        /\ learning_path.total_time
               = SumTime(learning_path.steps, Len(learning_path.steps))

\* generate has returned a path of two steps, one without flashcards and a
\* hard one with one flashcard: 30 + (15 + 2) * 3 minutes
C19_Witness ==
    /\ pc = "done"
    /\ learning_path.total_steps = 2
    /\ \E i, j \in 1..2 :
           /\ learning_path.steps[i].num_flashcards = 0
           /\ learning_path.steps[i].estimated_time = 30
           /\ learning_path.steps[j].difficulty = "hard"
           /\ learning_path.steps[j].num_flashcards = 1
           /\ learning_path.steps[j].estimated_time = 51
    /\ learning_path.total_time = 81

\* the positions of the flashcards filed under the topic; a card without a
\* topic field is filed under General
Bucket(topic) ==
    {i \in 1..Len(flashcards) :
        IF "topic" \in DOMAIN flashcards[i]
        THEN flashcards[i].topic = topic
        ELSE topic = General}

\* the positions of the bucket whose card carries the difficulty d
Voting(bucket, d) ==
    {i \in bucket : "difficulty" \in DOMAIN flashcards[i]
                        /\ flashcards[i].difficulty = d}

\* C22: the difficulty of a step is the majority vote over the flashcards
\* whose topic equals the step's topic: hard if strictly more than half are
\* hard, else easy if strictly more than half are easy, else medium; an
\* empty bucket gives medium, and a card without a difficulty field counts
\* as medium and raises nothing.
C22_MajorityVote ==
    pc = "done" =>
        /\ raised = "none"
        /\ \A n \in 1..Len(learning_path.steps) :
               LET bucket == Bucket(learning_path.steps[n].topic)
                   size == Cardinality(bucket)
                   hard == Cardinality(Voting(bucket, "hard"))
                   easy == Cardinality(Voting(bucket, "easy"))
               IN  learning_path.steps[n].difficulty =
                       IF size = 0 THEN "medium"
                       ELSE IF 2 * hard > size THEN "hard"
                       ELSE IF 2 * easy > size THEN "easy"
                       ELSE "medium"

\* a step whose bucket holds a hard card and a card without a difficulty
\* field: exactly half of the votes are hard and the step is medium
C22_Witness ==
    /\ pc = "done"
    /\ \E n \in 1..Len(learning_path.steps) :
           LET bucket == Bucket(learning_path.steps[n].topic)
           IN  /\ Cardinality(bucket) = 2
               /\ Cardinality(Voting(bucket, "hard")) = 1
               /\ \E i \in bucket : "difficulty" \notin DOMAIN flashcards[i]
               /\ learning_path.steps[n].difficulty = "medium"

\* ------------------------------------------------------------------------
\* One upload: upload_file and the stages of process_uploaded_file
\* ------------------------------------------------------------------------

InitPipeline ==
    /\ pc = "request"
    /\ upload \in Uploads
    /\ previous = NoCall
    /\ NoRuns
    /\ nouns \in NounChoices
    /\ num_cards = PipelineNumCards
    /\ ratio = PipelineRatio
    /\ text = <<>>
    /\ topics = <<>>
    /\ picks = <<>>
    /\ candidates = <<>>
    /\ flashcards = <<>>
    /\ summary = NoSummary
    /\ raised = "none"
    /\ concept_graph = EmptyGraph
    /\ learning_path = NoPath
    /\ filename = <<>>
    /\ material_id = 0
    /\ db = EmptyDatabase
    /\ files = <<>>
    /\ response = NoResponse

\* upload_file answers 400: no file part, no file name, or a file type that
\* is not allowed
RejectUpload ==
    /\ pc = "request"
    /\ \/ ~upload.present
       \/ upload.filename = <<>>
       \/ ~allowed_file(upload.filename)
    /\ response' = BadRequest
    /\ pc' = "rejected"
    /\ UNCHANGED <<generator_vars, upload, filename, material_id, db, files,
                   repeat_vars, concurrent_vars>>

\* upload_file stores the file under its name with the timestamp and saves
\* the material row
AcceptUpload ==
    /\ pc = "request"
    /\ upload.present
    /\ upload.filename # <<>>
    /\ allowed_file(upload.filename)
    /\ filename' = secure_filename_with_timestamp(upload.filename, Timestamp)
    /\ files' = save_upload(files, filename', upload.content)
    /\ material_id' = NextMaterialId(db)
    /\ db' = save_material(db, filename', Len(upload.content))
    /\ pc' = "parse"
    /\ UNCHANGED <<generator_vars, upload, response, repeat_vars,
                   concurrent_vars>>

\* text = parser.parse(filepath)
ParseFile ==
    /\ pc = "parse"
    /\ parse_raises(filename, upload) = "none"
    /\ text' = parse(filename, upload)
    /\ pc' = "topics"
    /\ UNCHANGED <<nouns, topics, num_cards, picks, candidates, flashcards,
                   ratio, summary, raised, concept_graph, learning_path,
                   pipeline_vars, repeat_vars, concurrent_vars>>

\* parser.parse raises
ParseRaises ==
    /\ pc = "parse"
    /\ parse_raises(filename, upload) # "none"
    /\ raised' = parse_raises(filename, upload)
    /\ pc' = "except"
    /\ UNCHANGED <<text, nouns, topics, num_cards, picks, candidates,
                   flashcards, ratio, summary, concept_graph, learning_path,
                   pipeline_vars, repeat_vars, concurrent_vars>>

\* topics = text_processor.extract_topics(text); db.save_topics(...)
SaveTopics ==
    /\ pc = "topics"
    /\ topics' = extract_topics(text, nouns)
    /\ db' = save_topics(db, material_id, topics')
    /\ pc' = "flashcards"
    /\ UNCHANGED <<text, nouns, num_cards, picks, candidates, flashcards,
                   ratio, summary, raised, concept_graph, learning_path,
                   upload, filename, material_id, files, response,
                   repeat_vars, concurrent_vars>>

\* flashcards = flashcard_gen.generate(text, topics, num_cards=25), the
\* rows of db.save_flashcards and the JSON and CSV files
SaveFlashcards ==
    /\ pc = "flashcards"
    /\ \E chosen \in [1..Len(ConceptTopics(topics, sent_tokenize(text)))
                          -> 1..NumTemplates] :
           /\ picks' = chosen
           /\ candidates' = RawCards(text, topics, chosen)
    /\ flashcards' = finish(candidates', num_cards)
    /\ db' = save_flashcards(db, material_id, flashcards')
    /\ files' = save_flashcards_csv(
                    save_flashcards_json(files, flashcards', Stem(filename)),
                    flashcards', Stem(filename))
    /\ pc' = "summary"
    /\ UNCHANGED <<text, nouns, topics, num_cards, ratio, summary, raised,
                   concept_graph, learning_path, upload, filename,
                   material_id, response, repeat_vars, concurrent_vars>>

\* summary = summary_gen.generate(text, ratio=0.3), the row of
\* db.save_summary and the JSON file
SaveSummary ==
    /\ pc = "summary"
    /\ generate_summary_raises(text) = "none"
    /\ summary' = generate_summary(text, ratio)
    /\ db' = save_summary(db, material_id, summary')
    /\ files' = save_summary_json(files, summary', Stem(filename))
    /\ pc' = "concept_map"
    /\ UNCHANGED <<text, nouns, topics, num_cards, picks, candidates,
                   flashcards, ratio, raised, concept_graph, learning_path,
                   upload, filename, material_id, response, repeat_vars,
                   concurrent_vars>>

\* summary_gen.generate raises
SummaryRaises ==
    /\ pc = "summary"
    /\ generate_summary_raises(text) # "none"
    /\ raised' = generate_summary_raises(text)
    /\ pc' = "except"
    /\ UNCHANGED <<text, nouns, topics, num_cards, picks, candidates,
                   flashcards, ratio, summary, concept_graph, learning_path,
                   pipeline_vars, repeat_vars, concurrent_vars>>

\* concept_graph = concept_mapper.create_concept_graph(topics, text) and
\* its JSON file
SaveConceptMap ==
    /\ pc = "concept_map"
    /\ concept_graph' = create_concept_graph(topics, text)
    /\ files' = save_concept_map_json(files, concept_graph',
                                      Stem(filename) \o Chars("_concept_map"))
    /\ pc' = "learning_path"
    /\ UNCHANGED <<text, nouns, topics, num_cards, picks, candidates,
                   flashcards, ratio, summary, raised, learning_path,
                   upload, filename, material_id, db, response, repeat_vars,
                   concurrent_vars>>

\* a variant that plans the path without the flashcards of the run
SaveLearningPathWithoutCards ==
    /\ pc = "learning_path"
    /\ learning_path' = generate_path(topics, <<>>)
    /\ files' = save_learning_path_json(
                    files, learning_path',
                    Stem(filename) \o Chars("_learning_path"))
    /\ pc' = "return"
    /\ UNCHANGED <<text, nouns, topics, num_cards, picks, candidates,
                   flashcards, ratio, summary, raised, concept_graph,
                   upload, filename, material_id, db, response, repeat_vars,
                   concurrent_vars>>

\* learning_path = learning_path_gen.generate(topics, flashcards) and its
\* JSON file
SaveLearningPath ==
    /\ pc = "learning_path"
    /\ learning_path' = generate_path(topics, flashcards)
    /\ files' = save_learning_path_json(
                    files, learning_path',
                    Stem(filename) \o Chars("_learning_path"))
    /\ pc' = "return"
    /\ UNCHANGED <<text, nouns, topics, num_cards, picks, candidates,
                   flashcards, ratio, summary, raised, concept_graph,
                   upload, filename, material_id, db, response, repeat_vars,
                   concurrent_vars>>

\* process_uploaded_file returns the stats and upload_file the success
\* response
ReturnSuccess ==
    /\ pc = "return"
    /\ response' = Success(material_id, filename,
                           Stats(flashcards, topics, summary, concept_graph))
    /\ pc' = "done"
    /\ UNCHANGED <<generator_vars, upload, filename, material_id, db, files,
                   repeat_vars, concurrent_vars>>

\* except Exception of upload_file: the answer is 500, nothing is undone
ReturnError ==
    /\ pc = "except"
    /\ response' = ServerError
    /\ pc' = "failed"
    /\ UNCHANGED <<generator_vars, upload, filename, material_id, db, files,
                   repeat_vars, concurrent_vars>>

NextPipeline ==
    \/ RejectUpload
    \/ AcceptUpload
    \/ ParseFile
    \/ ParseRaises
    \/ SaveTopics
    \/ SaveFlashcards
    \/ SaveSummary
    \/ SummaryRaises
    \/ SaveConceptMap
    \/ SaveLearningPath
    \/ ReturnSuccess
    \/ ReturnError

SpecPipeline == InitPipeline /\ [][NextPipeline]_vars

\* the five output files of a run
RunFiles ==
    {Path("flashcards", Stem(filename) \o Chars(".json")),
     Path("flashcards", Stem(filename) \o Chars(".csv")),
     Path("summaries", Stem(filename) \o Chars(".json")),
     Path("concept_maps", Stem(filename) \o Chars("_concept_map.json")),
     Path("learning_paths", Stem(filename) \o Chars("_learning_path.json"))}

\* C3: a processing run is all-or-nothing: after a run that failed no topic,
\* flashcard or summary row and no output file of the run is stored, and
\* after a run that succeeded the rows of its topics, flashcards and summary
\* and its five output files are all stored.
C3_AllOrNothing ==
    /\ pc = "failed" =>
           /\ db.topics = <<>>
           /\ db.flashcards = <<>>
           /\ db.summaries = <<>>
           /\ OutputFiles(files) = {}
    /\ pc = "done" =>
           /\ db.topics = TopicRows(material_id, topics)
           /\ db.flashcards = FlashcardRows(material_id, flashcards)
           /\ db.summaries = <<SummaryRow(material_id, summary)>>
           /\ OutputFiles(files) = RunFiles

\* a run that the summary generator ended: the topic rows and the flashcard
\* files are stored, the summary, the concept map and the learning path
\* are not
C3_PartialRun ==
    /\ pc = "failed"
    /\ raised = "ZeroDivisionError"
    /\ db.topics = TopicRows(material_id, <<GeneralTopic>>)
    /\ db.summaries = <<>>
    /\ OutputFiles(files) =
           {Path("flashcards", Stem(filename) \o Chars(".json")),
            Path("flashcards", Stem(filename) \o Chars(".csv"))}

\* the rows of a table that belong to a material
RowsOf(table, id) ==
    Filter(table, [k \in 1..Len(table) |-> table[k].material_id = id])

\* the position that follows a position of a run
StageAfter ==
    [request |-> {"parse", "rejected"},
     parse |-> {"topics", "except"},
     topics |-> {"flashcards"},
     flashcards |-> {"summary"},
     summary |-> {"concept_map", "except"},
     concept_map |-> {"learning_path"},
     learning_path |-> {"return"},
     return |-> {"done"},
     except |-> {"failed"}]

\* the positions at which a stage has completed
TopicsDone ==
    {"flashcards", "summary", "concept_map", "learning_path", "return", "done"}

FlashcardsDone == {"summary", "concept_map", "learning_path", "return", "done"}

ConceptMapDone == {"learning_path", "return", "done"}

LearningPathDone == {"return", "done"}

\* the positions at which no stage after the topic extraction has started
BeforeFlashcards == {"request", "rejected", "parse", "topics"}

\* what the stages have produced at a position of a run: a stage has not
\* started before the stages it depends on have completed, and its result
\* is computed from the text, the topic list and the flashcard list that
\* the run holds and has saved
StageResults ==
    /\ pc \in BeforeFlashcards =>
           /\ flashcards = <<>>
           /\ concept_graph = EmptyGraph
           /\ learning_path = NoPath
    /\ pc \in BeforeFlashcards \cup {"flashcards"} =>
           learning_path = NoPath
    /\ pc \in TopicsDone =>
           /\ topics = extract_topics(text, nouns)
           /\ RowsOf(db.topics, material_id)
                  = TopicRows(material_id, topics)
    /\ pc \in FlashcardsDone =>
           /\ flashcards = generate(text, topics, num_cards, picks)
           /\ RowsOf(db.flashcards, material_id)
                  = FlashcardRows(material_id, flashcards)
    /\ pc \in ConceptMapDone =>
           concept_graph = create_concept_graph(topics, text)
    /\ pc \in LearningPathDone =>
           learning_path = generate_path(topics, flashcards)

\* C20: in every run the text is obtained once and the stages run in
\* dependency order: the topics are extracted before the flashcards, the
\* concept graph and the learning path are made, the flashcards before the
\* learning path, and the flashcards, the graph and the path are computed
\* from the topic list (the path also from the flashcard list) that the run
\* produced and saved.
C20_DependencyOrder ==
    /\ []StageResults
    /\ [][/\ pc' \in StageAfter[pc]
          /\ text' # text => pc = "parse"
          /\ topics' # topics => pc = "topics"
          /\ flashcards' # flashcards => pc = "flashcards"]_vars

\* a run has succeeded with two topics, a flashcard filed under a topic of
\* the path and a graph of the topics
C20_Witness ==
    /\ pc = "done"
    /\ Len(topics) >= 2
    /\ Len(flashcards) >= 1
    /\ \E i \in 1..Len(learning_path.steps) :
           learning_path.steps[i].num_flashcards > 0
    /\ Len(concept_graph.nodes) >= 2

\* ------------------------------------------------------------------------
\* Two uploads handled side by side (app.run serves each request on a thread
\* of its own)
\* ------------------------------------------------------------------------

Requests == {1, 2}

\* the clock is followed for MaxSeconds seconds
MaxSeconds == 1

\* what datetime.now().strftime('%Y%m%d_%H%M%S') returns after the seconds
TimestampAt(seconds) ==
    IF seconds = 0 THEN Timestamp ELSE Chars("20240117_143053")

\* a request that upload_file has not started to handle
NewRun(file) ==
    [pc |-> "request", upload |-> file, filename |-> <<>>, material_id |-> 0,
     text |-> <<>>, topics |-> <<>>, flashcards |-> <<>>,
     summary |-> NoSummary, concept_graph |-> EmptyGraph,
     learning_path |-> NoPath, raised |-> "none", response |-> NoResponse]

\* the second upload: the name of the first one, a name that
\* secure_filename maps to it, or another name, and other content
SecondUploads ==
    {FileUpload(name, SentenceDogs, TRUE) :
        name \in {Chars("notes.txt"), Chars("../notes.txt"),
                  Chars("essay.txt")}}

InitConcurrent ==
    /\ pc = "start"
    /\ NoUpload
    /\ previous = NoCall
    /\ clock = 0
    /\ \E second \in SecondUploads :
           runs = <<NewRun(FileUpload(Chars("notes.txt"), SentenceCats, TRUE)),
                    NewRun(second)>>
    /\ nouns = {}
    /\ num_cards = PipelineNumCards
    /\ ratio = PipelineRatio
    /\ text = <<>>
    /\ topics = <<>>
    /\ picks = <<>>
    /\ candidates = <<>>
    /\ flashcards = <<>>
    /\ summary = NoSummary
    /\ raised = "none"
    /\ concept_graph = EmptyGraph
    /\ learning_path = NoPath

\* the stored upload of a run, as FileParser opens it
StoredUpload(run) ==
    FileUpload(run.filename, files[Path("uploads", run.filename)],
               run.upload.readable)

\* a second passes
Tick ==
    /\ clock < MaxSeconds
    /\ clock' = clock + 1
    /\ UNCHANGED <<pc, generator_vars, pipeline_vars, repeat_vars, runs>>

\* upload_file up to save_material: the answer 400, or the file stored under
\* its name with the timestamp and the material row
RunUpload(r) ==
    /\ runs[r].pc = "request"
    /\ LET file == runs[r].upload
           name == secure_filename_with_timestamp(file.filename,
                                                  TimestampAt(clock))
       IN  IF \/ ~file.present
              \/ file.filename = <<>>
              \/ ~allowed_file(file.filename)
           THEN /\ runs' = [runs EXCEPT ![r].response = BadRequest,
                                        ![r].pc = "rejected"]
                /\ UNCHANGED <<db, files>>
           ELSE /\ files' = save_upload(files, name, file.content)
                /\ db' = save_material(db, name, Len(file.content))
                /\ runs' = [runs EXCEPT ![r].filename = name,
                                        ![r].material_id =
                                            NextMaterialId(db),
                                        ![r].pc = "parse"]
    /\ UNCHANGED <<pc, generator_vars, upload, filename, material_id,
                   response, repeat_vars, clock>>

\* text = parser.parse(filepath): the file is read as it is stored now
RunParse(r) ==
    /\ runs[r].pc = "parse"
    /\ LET stored == StoredUpload(runs[r])
           error == parse_raises(runs[r].filename, stored)
       IN  runs' = IF error # "none"
                   THEN [runs EXCEPT ![r].raised = error, ![r].pc = "except"]
                   ELSE [runs EXCEPT
                            ![r].text = parse(runs[r].filename, stored),
                            ![r].pc = "topics"]
    /\ UNCHANGED <<pc, generator_vars, pipeline_vars, repeat_vars, clock>>

\* topics = text_processor.extract_topics(text); db.save_topics(...)
RunTopics(r) ==
    /\ runs[r].pc = "topics"
    /\ LET found == extract_topics(runs[r].text, nouns)
       IN  /\ db' = save_topics(db, runs[r].material_id, found)
           /\ runs' = [runs EXCEPT ![r].topics = found,
                                   ![r].pc = "flashcards"]
    /\ UNCHANGED <<pc, generator_vars, upload, filename, material_id, files,
                   response, repeat_vars, clock>>

\* flashcards = flashcard_gen.generate(text, topics, num_cards=25), the
\* rows of db.save_flashcards and the JSON and CSV files
RunFlashcards(r) ==
    /\ runs[r].pc = "flashcards"
    /\ \E chosen \in [1..Len(ConceptTopics(runs[r].topics,
                                           sent_tokenize(runs[r].text)))
                          -> 1..NumTemplates] :
           LET cards == generate(runs[r].text, runs[r].topics, num_cards,
                                 chosen)
           IN  /\ db' = save_flashcards(db, runs[r].material_id, cards)
               /\ files' = save_flashcards_csv(
                               save_flashcards_json(
                                   files, cards, Stem(runs[r].filename)),
                               cards, Stem(runs[r].filename))
               /\ runs' = [runs EXCEPT ![r].flashcards = cards,
                                       ![r].pc = "summary"]
    /\ UNCHANGED <<pc, generator_vars, upload, filename, material_id,
                   response, repeat_vars, clock>>

\* summary = summary_gen.generate(text, ratio=0.3), the row of
\* db.save_summary and the JSON file
RunSummary(r) ==
    /\ runs[r].pc = "summary"
    /\ LET error == generate_summary_raises(runs[r].text)
           made == generate_summary(runs[r].text, ratio)
       IN  IF error # "none"
           THEN /\ runs' = [runs EXCEPT ![r].raised = error,
                                        ![r].pc = "except"]
                /\ UNCHANGED <<db, files>>
           ELSE /\ db' = save_summary(db, runs[r].material_id, made)
                /\ files' = save_summary_json(files, made,
                                              Stem(runs[r].filename))
                /\ runs' = [runs EXCEPT ![r].summary = made,
                                        ![r].pc = "concept_map"]
    /\ UNCHANGED <<pc, generator_vars, upload, filename, material_id,
                   response, repeat_vars, clock>>

\* concept_graph = concept_mapper.create_concept_graph(topics, text) and
\* its JSON file
RunConceptMap(r) ==
    /\ runs[r].pc = "concept_map"
    /\ LET graph == create_concept_graph(runs[r].topics, runs[r].text)
       IN  /\ files' = save_concept_map_json(
                           files, graph,
                           Stem(runs[r].filename) \o Chars("_concept_map"))
           /\ runs' = [runs EXCEPT ![r].concept_graph = graph,
                                   ![r].pc = "learning_path"]
    /\ UNCHANGED <<pc, generator_vars, upload, filename, material_id, db,
                   response, repeat_vars, clock>>

\* learning_path = learning_path_gen.generate(topics, flashcards) and its
\* JSON file
RunLearningPath(r) ==
    /\ runs[r].pc = "learning_path"
    /\ LET path == generate_path(runs[r].topics, runs[r].flashcards)
       IN  /\ files' = save_learning_path_json(
                           files, path,
                           Stem(runs[r].filename) \o Chars("_learning_path"))
           /\ runs' = [runs EXCEPT ![r].learning_path = path,
                                   ![r].pc = "return"]
    /\ UNCHANGED <<pc, generator_vars, upload, filename, material_id, db,
                   response, repeat_vars, clock>>

\* upload_file returns: the success response with the stats, or 500 from
\* the except clause
RunReturn(r) ==
    /\ runs[r].pc \in {"return", "except"}
    /\ runs' = IF runs[r].pc = "except"
               THEN [runs EXCEPT ![r].response = ServerError,
                                 ![r].pc = "failed"]
               ELSE [runs EXCEPT
                        ![r].response =
                            Success(runs[r].material_id, runs[r].filename,
                                    Stats(runs[r].flashcards, runs[r].topics,
                                          runs[r].summary,
                                          runs[r].concept_graph)),
                        ![r].pc = "done"]
    /\ UNCHANGED <<pc, generator_vars, pipeline_vars, repeat_vars, clock>>

NextConcurrent ==
    \/ Tick
    \/ \E r \in Requests :
           \/ RunUpload(r)
           \/ RunParse(r)
           \/ RunTopics(r)
           \/ RunFlashcards(r)
           \/ RunSummary(r)
           \/ RunConceptMap(r)
           \/ RunLearningPath(r)
           \/ RunReturn(r)

SpecConcurrent == InitConcurrent /\ [][NextConcurrent]_vars

\* what a run stores when no other request is handled: its upload, the rows
\* of its topics and of its summary, and its summary file
StoredAsAlone(run) ==
    LET alone == Strip(run.upload.content)
        made == generate_summary(alone, ratio)
    IN  /\ files[Path("uploads", run.filename)] = run.upload.content
        /\ RowsOf(db.topics, run.material_id)
               = TopicRows(run.material_id, extract_topics(alone, nouns))
        /\ RowsOf(db.summaries, run.material_id)
               = <<SummaryRow(run.material_id, made)>>
        /\ files[Path("summaries", Stem(run.filename) \o Chars(".json"))]
               = save_summary_json(<<>>, made, Stem(run.filename))[
                     Path("summaries", Stem(run.filename) \o Chars(".json"))]

\* C17: runs for two different materials do not interact: when two uploads
\* handled side by side have both succeeded, the uploaded file, the rows and
\* the output files stored for each material are those of that material
\* processed alone, whatever the interleaving.
C17_NoInterference ==
    (\A r \in Requests : runs[r].pc = "done") =>
        \A r \in Requests : StoredAsAlone(runs[r])

\* two uploads of different content have both succeeded and the summary row
\* of the first material holds the sentence of the second upload
C17_CrossedContent ==
    /\ \A r \in Requests : runs[r].pc = "done"
    /\ runs[1].material_id # runs[2].material_id
    /\ runs[1].upload.content # runs[2].upload.content
    /\ RowsOf(db.summaries, runs[1].material_id)
           = <<SummaryRow(runs[1].material_id,
                          generate_summary(runs[2].upload.content, ratio))>>

\* ------------------------------------------------------------------------
\* The Database methods called in any order (routes.py calls the saves from
\* process_uploaded_file and delete_material from the /delete route)
\* ------------------------------------------------------------------------

MaxMaterials == 2

MaxRows == 2

MaterialIds == 1..MaxMaterials

\* the flashcards, the topics and the summary that are saved
DatabaseCards ==
    <<[question |-> QuestionQ, answer |-> AnswerA, topic |-> TopicAI,
       type |-> "definition", id |-> 1, difficulty |-> "easy"]>>

DatabaseTopics == <<TopicAI>>

DatabaseSummary == generate_summary(SentenceCats, PipelineRatio)

\* the database is new; the SQLite library is either build
InitDatabase ==
    /\ pc = "ready"
    /\ db \in {[EmptyDatabase EXCEPT !.foreign_keys = on] : on \in BOOLEAN}
    /\ upload = NoFile
    /\ filename = <<>>
    /\ material_id = 0
    /\ files = <<>>
    /\ response = NoResponse
    /\ previous = NoCall
    /\ NoRuns
    /\ text = <<>>
    /\ topics = <<>>
    /\ num_cards = 0
    /\ picks = <<>>
    /\ candidates = <<>>
    /\ nouns = {}
    /\ flashcards = <<>>
    /\ ratio = 0
    /\ summary = NoSummary
    /\ raised = "none"
    /\ concept_graph = EmptyGraph
    /\ learning_path = NoPath

\* the material has a row in the materials table
HasMaterial(database, id) ==
    \E k \in 1..Len(database.materials) : database.materials[k].id = id

\* an insert of rows that name the material: with foreign_keys on, the
\* insert fails when the material has no row
InsertRaises(database, id) ==
    IF database.foreign_keys /\ ~HasMaterial(database, id)
    THEN "IntegrityError"
    ELSE "none"

CallSaveMaterial ==
    /\ db.sequence < MaxMaterials
    /\ material_id' = NextMaterialId(db)
    /\ db' = save_material(db, Chars("notes.txt"), Len(SentenceCats))
    /\ raised' = "none"
    /\ pc' = "saved"
    /\ UNCHANGED <<text, nouns, topics, num_cards, picks, candidates,
                   flashcards, ratio, summary, concept_graph, learning_path,
                   upload, filename, files, response, repeat_vars,
                   concurrent_vars>>

CallSaveTopics(id) ==
    /\ Len(db.topics) < MaxRows
    /\ material_id' = id
    /\ raised' = InsertRaises(db, id)
    /\ db' = IF raised' = "none" THEN save_topics(db, id, DatabaseTopics)
             ELSE db
    /\ pc' = "saved"
    /\ UNCHANGED <<text, nouns, topics, num_cards, picks, candidates,
                   flashcards, ratio, summary, concept_graph, learning_path,
                   upload, filename, files, response, repeat_vars,
                   concurrent_vars>>

CallSaveFlashcards(id) ==
    /\ Len(db.flashcards) < MaxRows
    /\ material_id' = id
    /\ raised' = InsertRaises(db, id)
    /\ db' = IF raised' = "none" THEN save_flashcards(db, id, DatabaseCards)
             ELSE db
    /\ pc' = "saved"
    /\ UNCHANGED <<text, nouns, topics, num_cards, picks, candidates,
                   flashcards, ratio, summary, concept_graph, learning_path,
                   upload, filename, files, response, repeat_vars,
                   concurrent_vars>>

CallSaveSummary(id) ==
    /\ Len(db.summaries) < MaxRows
    /\ material_id' = id
    /\ raised' = InsertRaises(db, id)
    /\ db' = IF raised' = "none" THEN save_summary(db, id, DatabaseSummary)
             ELSE db
    /\ pc' = "saved"
    /\ UNCHANGED <<text, nouns, topics, num_cards, picks, candidates,
                   flashcards, ratio, summary, concept_graph, learning_path,
                   upload, filename, files, response, repeat_vars,
                   concurrent_vars>>

\* the /delete route: any id may be asked for
CallDeleteMaterial(id) ==
    /\ material_id' = id
    /\ db' = delete_material(db, id)
    /\ raised' = "none"
    /\ pc' = "deleted"
    /\ UNCHANGED <<text, nouns, topics, num_cards, picks, candidates,
                   flashcards, ratio, summary, concept_graph, learning_path,
                   upload, filename, files, response, repeat_vars,
                   concurrent_vars>>

NextDatabase ==
    \/ CallSaveMaterial
    \/ \E id \in MaterialIds : CallSaveTopics(id)
    \/ \E id \in MaterialIds : CallSaveFlashcards(id)
    \/ \E id \in MaterialIds : CallSaveSummary(id)
    \/ \E id \in MaterialIds : CallDeleteMaterial(id)

SpecDatabase == InitDatabase /\ [][NextDatabase]_vars

\* the rows of the three dependent tables that name the material
DependentRows(id) ==
    [topics |-> RowsOf(db.topics, id),
     flashcards |-> RowsOf(db.flashcards, id),
     summaries |-> RowsOf(db.summaries, id)]

\* C28: after delete_material(id) has returned, no flashcard, summary or
\* topic row with material_id = id remains, after any sequence of saves and
\* deletes.
C28_DeleteCascades ==
    pc = "deleted" =>
        /\ DependentRows(material_id).topics = <<>>
        /\ DependentRows(material_id).flashcards = <<>>
        /\ DependentRows(material_id).summaries = <<>>

\* delete_material has removed the row of a material and a flashcard, a
\* topic and a summary of that material are still stored
C28_OrphanRows ==
    /\ pc = "deleted"
    /\ ~HasMaterial(db, material_id)
    /\ material_id <= db.sequence
    /\ DependentRows(material_id).topics # <<>>
    /\ DependentRows(material_id).flashcards # <<>>
    /\ DependentRows(material_id).summaries # <<>>

\* ------------------------------------------------------------------------
\* The download route and the concept-map view after an upload
\* ------------------------------------------------------------------------

\* what may be None is kept as a list: <<>> for None, <<x>> for the value x
None == <<>>

\* Database.get_material_by_id: the row as a dict, or None
get_material_by_id(database, id) ==
    IF HasMaterial(database, id)
    THEN <<database.materials[CHOOSE k \in 1..Len(database.materials) :
                                  database.materials[k].id = id]>>
    ELSE None

\* the keys of file_map in download_file
FileTypes ==
    {"flashcards_json", "flashcards_csv", "summary", "concept_map",
     "learning_path"}

\* file_map of download_file for the filename of the material
file_map(name) ==
    [flashcards_json |-> Path("flashcards", name \o Chars(".json")),
     flashcards_csv |-> Path("flashcards", name \o Chars(".csv")),
     summary |-> Path("summaries", name \o Chars(".json")),
     concept_map |-> Path("concept_maps", name \o Chars("_concept_map.json")),
     learning_path |->
         Path("learning_paths", name \o Chars("_learning_path.json"))]

\* the file types and the material ids that are asked for: a type that
\* file_map does not have, and an id that no material has
RequestedTypes == FileTypes \cup {"transcript"}

RequestedIds(id) == {id, id + 1}

\* the answers "Material not found" and "File not found"
NotFound(file_type, id) ==
    [status |-> 404, file_type |-> file_type, material_id |-> id]

\* send_file(str(filepath), as_attachment=True)
SendFile(file_type, id, path, data) ==
    [status |-> 200, file_type |-> file_type, material_id |-> id,
     path |-> path, data |-> data]

\* download_file
download_file(database, stored, file_type, id) ==
    LET material == get_material_by_id(database, id)
    IN  IF material = None THEN NotFound(file_type, id)
        ELSE IF file_type \in FileTypes
                  /\ file_map(material[1].filename)[file_type]
                         \in DOMAIN stored
        THEN SendFile(file_type, id,
                      file_map(material[1].filename)[file_type],
                      stored[file_map(material[1].filename)[file_type]])
        ELSE NotFound(file_type, id)

\* view_concept_map: the page is rendered with the graph of the file, or
\* with None when the file does not exist; material['filename'] of a
\* material that is None is a TypeError
view_concept_map(database, stored, id) ==
    LET material == get_material_by_id(database, id)
    IN  IF material = None
        THEN [status |-> 500, file_type |-> "page", material_id |-> id]
        ELSE LET graph_file == Path("concept_maps",
                                    material[1].filename
                                        \o Chars("_concept_map.json"))
             IN  [status |-> 200, file_type |-> "page", material_id |-> id,
                  concept_graph |-> IF graph_file \in DOMAIN stored
                                    THEN <<stored[graph_file].graph>>
                                    ELSE None]

\* GET /download/<file_type>/<material_id> after the upload has succeeded
DownloadFile ==
    /\ pc = "done"
    /\ \E file_type \in RequestedTypes : \E id \in RequestedIds(material_id) :
           response' = download_file(db, files, file_type, id)
    /\ pc' = "downloaded"
    /\ UNCHANGED <<generator_vars, upload, filename, material_id, db, files,
                   repeat_vars, concurrent_vars>>

\* GET /concept-map/<material_id> after the upload has succeeded
ViewConceptMap ==
    /\ pc = "done"
    /\ \E id \in RequestedIds(material_id) :
           response' = view_concept_map(db, files, id)
    /\ pc' = "viewed"
    /\ UNCHANGED <<generator_vars, upload, filename, material_id, db, files,
                   repeat_vars, concurrent_vars>>

NextDownload ==
    \/ NextPipeline
    \/ DownloadFile
    \/ ViewConceptMap

SpecDownload == InitPipeline /\ [][NextDownload]_vars

\* C30: after a successful upload every output file the run has written
\* (flashcards JSON and CSV, summary, concept map, learning path) is found
\* by the download route and by the concept-map view for that material: the
\* path the routes look up is the path the run wrote.
C30_OutputsFound ==
    /\ (/\ pc = "downloaded"
        /\ response.material_id = material_id
        /\ response.file_type \in FileTypes)
           => /\ response.status = 200
              /\ response.path \in RunFiles
    /\ (pc = "viewed" /\ response.material_id = material_id)
           => /\ response.status = 200
              /\ response.concept_graph = <<concept_graph>>

\* the run has written its five files and the download of the flashcards
\* JSON of the material is answered 404
C30_FileNotFound ==
    /\ pc = "downloaded"
    /\ response.material_id = material_id
    /\ response.file_type = "flashcards_json"
    /\ response.status = 404
    /\ RunFiles \subseteq DOMAIN files

====
